---- MODULE Spec2Model ----
(***************************************************************************)
(* The cross-thread bridge of duckstation-qt (QtHostInterface): the UI     *)
(* thread marshals commands to the worker thread, whose run-loop           *)
(* (threadEntryPoint) alternates between stepping the emulated system and  *)
(* parking in its event loop, and the debounced settings save (QtHost).    *)
(***************************************************************************)
EXTENDS Integers, Sequences, FiniteSets, TLC

\* Commands the UI thread issues in one behaviour.
MaxCmds == 3

UI == "ui"
Worker == "worker"

Queued == "QueuedConnection"
BlockingQueued == "BlockingQueuedConnection"

NoCmd == [id |-> 0, op |-> "none", p |-> FALSE, conn |-> Queued]

VARIABLES
  ui,               \* where the UI thread is: [kind, id]
  queue,            \* events posted to the bridge object, which lives on the worker thread
  nextId,           \* issue number of the next command
  wpc,              \* the worker thread's place in threadEntryPoint
  wcur,             \* the command whose body the worker is executing, or NoCmd
  wsub,             \* the place inside that body
  drainLeft,        \* posted events still to deliver in the current processEvents pass
  exitFlag,         \* the exit flag of m_worker_thread_event_loop
  m_shutdown_flag,
  sys,              \* System state: Shutdown, Starting, Running, Paused
  cancelled,        \* startups cancelled by System::CancelPendingStartup
  uiReq,            \* a blocking request of the worker to the UI thread: none, pending, done
  semDone,          \* BlockingQueuedConnection semaphores released by the worker
  syncEvent,        \* m_worker_thread_sync_execute_done is signalled
  fullscreenUI,     \* FullscreenUI::IsInitialized()
  bodyLog,          \* history: the bodies started, in order, with the executing thread
  finished,         \* history: ids of the commands whose body has completed
  returned,         \* history: ids of the blocking calls that returned to their caller
  snap,             \* history: ids queued when the last emulation step finished
  settingsVer,      \* the content of the base settings layer (a version number)
  diskVer,          \* the content last written to the settings file
  s_settings_save_timer, \* 0 (null) or the timer the global pointer holds
  timers,           \* the QTimer objects that exist: [id, owner, armed]
  nextTimer,        \* id of the next QTimer constructed
  lock,             \* holder of Host::GetSettingsLock(): none, ui, worker
  saves,            \* history: disk saves since the pending timer was armed
  booted,           \* history: ids of the bootSystem commands that created a system
  doomed,           \* history: boots pending when a power off was issued
  activity,         \* history: the stepping, polling and rendering done, with the thread
  bootTrace,        \* history: what the last bootSystem body did, in order
  m_init_result,    \* Thread::m_init_result
  m_init_event,     \* Thread::m_init_event is signalled
  initRet,          \* what Initialize() returned: none, true, false
  translator,       \* installTranslator() has run on the UI thread
  layer,            \* the base settings layer: its version stamp and its values
  iniFile,          \* the settings file: unreadable, or the version stamp it holds
  fileAtStart,      \* history: the settings file when the program started
  initLog,          \* history: what initializeOnThread did, in order
  objectThread,     \* the thread the bridge object lives in (QObject::thread())
  workerIssued,     \* history: ids of the calls made on the worker thread
  media,            \* the disc in the system's drive: none, disc, sub
  did,              \* history: what the body of each system operation did: [id, op, ev]
  m_display,        \* a host display exists
  m_is_fullscreen,
  m_is_rendering_to_main,
  RenderToMainWindow, \* the base setting Main/RenderToMainWindow
  applied,          \* history: the setting read by the last applySettings on this display
  m_display_all_frames,
  m_throttler_enabled,
  m_frame_step_request,
  iteration,        \* history: what the current iteration of the run-loop did, in order
  steppedAt,        \* history: 0, or 1 + the bodies started before the last frame-step pause
  pollTimer,        \* m_background_controller_polling_timer->isActive()
  lastEmit,         \* history: what the last lifecycle handler emitted and did, in order
  announced,        \* history: emulationStarted was emitted, and no emulationStopped since
  asking,           \* the worker is inside ReportError or ConfirmMessage
  was_fullscreen,   \* the local was_fullscreen of that call
  noticeLog,        \* history: the values of m_is_fullscreen at the notifications
  m_is_exclusive_fullscreen,
  m_lost_exclusive_fullscreen,
  displayNo,        \* history: the number of displays acquired so far
  lostOn,           \* history: the display on which exclusive fullscreen was last lost
  nullRender,       \* history: renderDisplay() ran with m_display null
  displayAssert,    \* history: an Assert on m_display failed
  resumeLog         \* history: what the last resumeSystemFromMostRecentState did

vars == <<ui, queue, nextId, wpc, wcur, wsub, drainLeft, exitFlag, m_shutdown_flag, sys,
          cancelled, uiReq, semDone, syncEvent, fullscreenUI, bodyLog, finished,
          returned, snap, settingsVer, diskVer, s_settings_save_timer, timers,
          nextTimer, lock, saves, booted, doomed, activity, bootTrace, m_init_result,
          m_init_event, initRet, translator, layer, iniFile, fileAtStart, initLog,
          objectThread,
          workerIssued, media, did, m_display, m_is_fullscreen, m_is_rendering_to_main,
          RenderToMainWindow, applied, m_display_all_frames, m_throttler_enabled,
          m_frame_step_request, iteration, steppedAt, pollTimer, lastEmit, announced,
          asking, was_fullscreen, noticeLog, m_is_exclusive_fullscreen,
          m_lost_exclusive_fullscreen, displayNo, lostOn, nullRender, displayAssert,
          resumeLog>>

lifeVars == <<pollTimer, lastEmit, announced>>

noticeVars == <<asking, was_fullscreen, noticeLog>>

displayVars == <<m_is_exclusive_fullscreen, m_lost_exclusive_fullscreen, displayNo, lostOn,
                 displayAssert>>

hostRest == <<noticeVars, displayVars, resumeLog>>

hostVars == <<lifeVars, hostRest, nullRender>>

loopVars == <<m_display_all_frames, m_throttler_enabled, m_frame_step_request, iteration,
              steppedAt>>

consoleVars == <<media, did, m_display, m_is_fullscreen, m_is_rendering_to_main,
                 RenderToMainWindow, applied>>

initVars == <<m_init_result, m_init_event, initRet, translator, layer, iniFile,
              fileAtStart, initLog, objectThread>>

setVars == <<settingsVer, diskVer, s_settings_save_timer, timers, nextTimer, lock, saves>>

callVars == <<ui, queue, nextId, cancelled, doomed, returned>>

Idle == [kind |-> "idle", id |-> 0]

IsShutdown(s) == s = "Shutdown"
IsRunning(s) == s = "Running"
IsValid(s) == s \in {"Running", "Paused"}

\* A failed assertion or a null dereference ends the process: no thread runs on.
Alive == wpc # "crashed" /\ ui.kind # "crashed"

QueuedIds(q) == {q[i].id : i \in 1..Len(q)}

----------------------------------------------------------------------------
(* Thread identity and marshalling *)

\* Variant: the object stays with the thread that created it.
slotThreadOriginal == UI

\* createThread: moveToThread(m_worker_thread); the slots of the object, and so
\* the bodies of the posted calls, run on the worker thread.
slotThread == Worker

\* Variant: every thread takes itself for the worker thread.
isOnWorkerThreadAnywhere(t) == TRUE

isOnWorkerThread(t) == t = Worker

\* Variant: a posted event goes to the front of the receiver's queue.
postEventFront(q, e) == <<e>> \o q

\* QCoreApplication::postEvent: a posted event goes to the back of the receiver's queue.
postEvent(q, e) == Append(q, e)

\* The startups System::CancelPendingStartup cancels: every boot issued and not completed.
PendingStartups ==
  {queue[i].id : i \in {j \in 1..Len(queue) : queue[j].op = "bootSystem"}}
    \cup (IF wcur.op = "bootSystem" THEN {wcur.id} ELSE {})

CancelPendingStartup == cancelled' = cancelled \cup PendingStartups

\* The system state a body leaves when it runs to completion in one piece
\* (CommonHostInterface::PauseSystem, PowerOffSystem).
SystemAfter(op, p, s) ==
  CASE op = "pauseSystem" ->
         IF IsRunning(s) /\ p THEN "Paused"
         ELSE IF s = "Paused" /\ ~p THEN "Running" ELSE s
    [] op = "powerOffSystem" -> IF IsValid(s) THEN "Shutdown" ELSE s
    [] OTHER -> s

\* AcquireHostDisplay: "m_is_rendering_to_main = GetBaseBoolSettingValue(...)"; the
\* display it leaves when the system was created.
AcquireHostDisplay(acquires, created) ==
  \* "Assert(!m_display);"
  /\ displayAssert' = (displayAssert \/ (acquires /\ m_display))
  /\ displayNo' = IF created THEN displayNo + 1 ELSE displayNo
  \* "m_is_exclusive_fullscreen = m_display->IsFullscreen();"
  /\ \E exclusive \in {FALSE, m_is_fullscreen} :
       m_is_exclusive_fullscreen' = IF created THEN exclusive ELSE m_is_exclusive_fullscreen
  /\ UNCHANGED <<m_lost_exclusive_fullscreen, lostOn>>
  /\ m_display' = (m_display \/ created)
  /\ m_is_rendering_to_main' = IF acquires THEN RenderToMainWindow ELSE m_is_rendering_to_main
  /\ applied' = IF created THEN [done |-> FALSE, value |-> TRUE] ELSE applied

\* Variant: the release keeps the display.
ReleaseHostDisplayKeeps(destroyed) ==
  /\ displayAssert' = (displayAssert \/ (destroyed /\ ~m_display))
  /\ UNCHANGED <<m_is_exclusive_fullscreen, m_lost_exclusive_fullscreen, displayNo, lostOn>>
  /\ m_display' = m_display
  /\ m_is_fullscreen' = (m_is_fullscreen /\ ~destroyed)
  /\ media' = IF destroyed THEN "none" ELSE media
  /\ applied' = IF destroyed THEN [done |-> FALSE, value |-> TRUE] ELSE applied

\* ReleaseHostDisplay, when the system is destroyed: "m_display.reset();
\* m_is_fullscreen = false;".
ReleaseHostDisplay(destroyed) ==
  \* "Assert(m_display);"
  /\ displayAssert' = (displayAssert \/ (destroyed /\ ~m_display))
  /\ UNCHANGED <<m_is_exclusive_fullscreen, m_lost_exclusive_fullscreen, displayNo, lostOn>>
  /\ m_display' = (m_display /\ ~destroyed)
  /\ m_is_fullscreen' = (m_is_fullscreen /\ ~destroyed)
  /\ media' = IF destroyed THEN "none" ELSE media
  /\ applied' = IF destroyed THEN [done |-> FALSE, value |-> TRUE] ELSE applied

\* checkRenderToMainState: the test under which it switches the render mode.
NeedsModeSwitch(render_to_main) ==
  /\ ~IsShutdown(sys)
  /\ m_display
  /\ ~m_is_fullscreen
  /\ render_to_main # m_is_rendering_to_main

checkRenderToMainState(render_to_main) ==
  m_is_rendering_to_main' =
    IF NeedsModeSwitch(render_to_main) THEN render_to_main ELSE m_is_rendering_to_main

\* CommonHostInterface::Shutdown(): the teardown releases the emulation resources, so
\* no system is left.
Shutdown(s) == IF IsValid(s) THEN "Shutdown" ELSE s

\* Variant: no operation is guarded against a missing system.
HasNoSystemNever(op, s) == FALSE

\* The guard at the head of a body: "if (System::IsShutdown()) return;", and
\* "if (!System::IsValid()) return;" in singleStepCPU.
HasNoSystem(op, s) == IF op = "singleStepCPU" THEN ~IsValid(s) ELSE IsShutdown(s)

\* What the body of the command in hand did to the system.
Done(ev) == did \cup {[id |-> wcur.id, op |-> wcur.op, ev |-> ev]}

Range(f) == {f[i] : i \in 1..Len(f)}

\* What thread t does by stepping, polling or rendering.
Did(t, evs) == {[ev |-> e, thr |-> t] : e \in evs}

\* The rendering of a body that runs in one piece on thread t: singleStepCPU
\* renders when a system exists, OnSystemPaused(true) renders.
Rendering(t, op, p, s) ==
  IF \/ op = "singleStepCPU" /\ IsValid(s)
     \/ op = "pauseSystem" /\ p /\ IsRunning(s)
    THEN Did(t, {"renderDisplay"})
    ELSE {}

\* renderDisplay(): "ImGuiManager::RenderOSD(); m_display->Render();
\* ImGuiManager::NewFrame();", called when renders holds with the display as given.
renderDisplay(renders, display) == nullRender' = (nullRender \/ (renders /\ ~display))

\* Variant: starting the poll timer leaves it as it is.
startBackgroundControllerPollTimerNoop(active) == active

\* "if (m_background_controller_polling_timer->isActive()) return;
\* m_background_controller_polling_timer->start(...)": the timer is active afterwards.
startBackgroundControllerPollTimer(active) == IF active THEN active ELSE TRUE

\* "if (!m_background_controller_polling_timer->isActive()) return;
\* m_background_controller_polling_timer->stop()": the timer is inactive afterwards.
stopBackgroundControllerPollTimer(active) == IF ~active THEN active ELSE FALSE

\* Variant: the creation is announced after the pause state.
OnSystemCreatedPausedFirst ==
  /\ pollTimer' = stopBackgroundControllerPollTimer(pollTimer)
  /\ lastEmit' = <<"wakeThread", "emulationPaused(false)", "emulationStarted">>
  /\ announced' = TRUE

\* OnSystemCreated: wakeThread(); stopBackgroundControllerPollTimer(); emit
\* emulationStarted(); emit emulationPaused(false).
OnSystemCreated ==
  /\ pollTimer' = stopBackgroundControllerPollTimer(pollTimer)
  /\ lastEmit' = <<"wakeThread", "emulationStarted", "emulationPaused(false)">>
  /\ announced' = TRUE

\* OnSystemPaused(paused): emit emulationPaused(paused); then, resumed, wakeThread(),
\* stopBackgroundControllerPollTimer() and emit focusDisplayWidgetRequested(); paused,
\* startBackgroundControllerPollTimer() and renderDisplay().
OnSystemPaused(paused) ==
  /\ pollTimer' = IF paused THEN startBackgroundControllerPollTimer(pollTimer)
                            ELSE stopBackgroundControllerPollTimer(pollTimer)
  /\ lastEmit' = IF paused
                   THEN <<"emulationPaused(true)", "renderDisplay">>
                   ELSE <<"emulationPaused(false)", "wakeThread",
                          "focusDisplayWidgetRequested">>
  /\ UNCHANGED announced

\* OnSystemDestroyed: startBackgroundControllerPollTimer(); emit emulationStopped().
OnSystemDestroyed ==
  /\ pollTimer' = startBackgroundControllerPollTimer(pollTimer)
  /\ lastEmit' = <<"emulationStopped">>
  /\ announced' = FALSE

\* The handler the core calls when an operation has taken the system from the state
\* before to the state after: OnSystemCreated for a system created, OnSystemPaused
\* for a pause or a resume, OnSystemDestroyed for a system destroyed.
SystemChanged(before, after) ==
  IF IsRunning(after) /\ before = "Paused" THEN OnSystemPaused(FALSE)
  ELSE IF IsRunning(after) /\ ~IsRunning(before) THEN OnSystemCreated
  ELSE IF after = "Paused" /\ IsRunning(before) THEN OnSystemPaused(TRUE)
  ELSE IF IsShutdown(after) /\ IsValid(before) THEN OnSystemDestroyed
  ELSE UNCHANGED lifeVars

\* The body executed inside the call, on the calling thread t.
callDirect(t, op, p) ==
  /\ bodyLog' = Append(bodyLog, [id |-> nextId, thr |-> t])
  /\ finished' = finished \cup {nextId}
  /\ nextId' = nextId + 1
  /\ sys' = SystemAfter(op, p, sys)
  /\ activity' = activity \cup Rendering(t, op, p, sys)
  /\ UNCHANGED <<ui, queue, cancelled, doomed, returned>>

\* Variant: the caller posts the command and leaves a pending startup alone.
invokeMethodKeepsStartup(op, p, conn, cancel, after) ==
  /\ queue' = postEvent(queue, [id |-> nextId, op |-> op, p |-> p, conn |-> conn])
  /\ activity' = activity
  /\ nextId' = nextId + 1
  /\ ui' = IF conn = BlockingQueued THEN [kind |-> "bqc", id |-> nextId] ELSE after
  /\ cancelled' = cancelled
  /\ doomed' = IF op = "powerOffSystem" THEN doomed \cup PendingStartups ELSE doomed
  /\ UNCHANGED <<bodyLog, finished, sys, returned>>

\* QMetaObject::invokeMethod(this, op, conn, args) from thread t: the call is posted
\* to the worker's queue; a BlockingQueuedConnection blocks the caller on a semaphore.
invokeMethod(op, p, conn, cancel, after) ==
  /\ queue' = postEvent(queue, [id |-> nextId, op |-> op, p |-> p, conn |-> conn])
  /\ activity' = activity
  /\ nextId' = nextId + 1
  /\ ui' = IF conn = BlockingQueued THEN [kind |-> "bqc", id |-> nextId] ELSE after
  /\ IF cancel THEN CancelPendingStartup ELSE cancelled' = cancelled
  /\ doomed' = IF op = "powerOffSystem" THEN doomed \cup PendingStartups ELSE doomed
  /\ UNCHANGED <<bodyLog, finished, sys, returned>>

\* Variant: a marshalled operation posts the command on every thread.
MarshalAlwaysPosts(t, op, p, conn, cancel) ==
  invokeMethod(op, p, conn, cancel, IF t = UI THEN Idle ELSE ui)

\* "if (!isOnWorkerThread()) { invokeMethod(...); return; } <body>"
Marshal(t, op, p, conn, cancel) ==
  IF ~isOnWorkerThread(t)
    THEN invokeMethod(op, p, conn, cancel, Idle)
    ELSE callDirect(t, op, p)

CanCall == ui.kind = "idle" /\ nextId <= MaxCmds

restOfCall == <<wpc, wcur, wsub, drainLeft, exitFlag, m_shutdown_flag, uiReq, semDone,
                syncEvent, fullscreenUI, booted, snap, setVars>>

----------------------------------------------------------------------------
(* The public operations, called on the UI thread *)

bootSystem ==
  /\ Alive
  /\ CanCall
  /\ Marshal(UI, "bootSystem", FALSE, Queued, FALSE)
  /\ UNCHANGED restOfCall
  /\ UNCHANGED bootTrace
  /\ UNCHANGED initVars
  /\ UNCHANGED workerIssued
  /\ UNCHANGED hostVars
  /\ UNCHANGED loopVars
  /\ UNCHANGED consoleVars

powerOffSystem ==
  /\ Alive
  /\ CanCall
  /\ Marshal(UI, "powerOffSystem", FALSE, Queued, TRUE)
  /\ UNCHANGED restOfCall
  /\ UNCHANGED bootTrace
  /\ UNCHANGED initVars
  /\ UNCHANGED workerIssued
  /\ UNCHANGED hostVars
  /\ UNCHANGED loopVars
  /\ UNCHANGED consoleVars

synchronousPowerOffSystem ==
  /\ Alive
  /\ CanCall
  /\ Marshal(UI, "powerOffSystem", FALSE, BlockingQueued, TRUE)
  /\ UNCHANGED restOfCall
  /\ UNCHANGED bootTrace
  /\ UNCHANGED initVars
  /\ UNCHANGED workerIssued
  /\ UNCHANGED hostVars
  /\ UNCHANGED loopVars
  /\ UNCHANGED consoleVars

pauseSystem ==
  /\ Alive
  /\ CanCall
  /\ \E paused \in BOOLEAN, wait_until_paused \in BOOLEAN :
       Marshal(UI, "pauseSystem", paused,
               IF wait_until_paused THEN BlockingQueued ELSE Queued, FALSE)
  /\ UNCHANGED restOfCall
  /\ UNCHANGED bootTrace
  /\ UNCHANGED initVars
  /\ UNCHANGED workerIssued
  /\ UNCHANGED hostVars
  /\ UNCHANGED loopVars
  /\ UNCHANGED consoleVars

loadState ==
  /\ Alive
  /\ CanCall
  /\ Marshal(UI, "loadState", FALSE, Queued, FALSE)
  /\ UNCHANGED restOfCall
  /\ UNCHANGED bootTrace
  /\ UNCHANGED initVars
  /\ UNCHANGED workerIssued
  /\ UNCHANGED hostVars
  /\ UNCHANGED loopVars
  /\ UNCHANGED consoleVars

\* What GetMostRecentResumeSaveStatePath() can return: no path, or the path of a
\* resume save state.
ResumePaths == {"", "resume.sav", "game_resume.sav"}

\* Variant: every path is taken for a resume save state.
hasNoResumeStateNever(state_filename) == FALSE

\* "if (state_filename.empty())"
hasNoResumeState(state_filename) == state_filename = ""

\* resumeSystemFromMostRecentState on the UI thread: with no resume save state
\* "emit errorReported(...); return;", else loadState(path), which posts the command.
resumeSystemFromMostRecentState ==
  /\ Alive
  /\ CanCall
  /\ \E state_filename \in ResumePaths :
       IF hasNoResumeState(state_filename)
         THEN /\ resumeLog' = [path |-> state_filename, id |-> nextId,
                               did |-> "errorReported"]
              /\ UNCHANGED <<callVars, bodyLog, finished, sys, activity>>
         ELSE /\ resumeLog' = [path |-> state_filename, id |-> nextId, did |-> "loadState"]
              /\ Marshal(UI, "loadState", state_filename, Queued, FALSE)
  /\ UNCHANGED restOfCall
  /\ UNCHANGED bootTrace
  /\ UNCHANGED initVars
  /\ UNCHANGED workerIssued
  /\ UNCHANGED <<lifeVars, noticeVars, displayVars, nullRender>>
  /\ UNCHANGED loopVars
  /\ UNCHANGED consoleVars

saveState ==
  /\ Alive
  /\ CanCall
  /\ \E block_until_done \in BOOLEAN :
       Marshal(UI, "saveState", FALSE,
               IF block_until_done THEN BlockingQueued ELSE Queued, FALSE)
  /\ UNCHANGED restOfCall
  /\ UNCHANGED bootTrace
  /\ UNCHANGED initVars
  /\ UNCHANGED workerIssued
  /\ UNCHANGED hostVars
  /\ UNCHANGED loopVars
  /\ UNCHANGED consoleVars

singleStepCPU ==
  /\ Alive
  /\ CanCall
  /\ Marshal(UI, "singleStepCPU", FALSE, BlockingQueued, FALSE)
  /\ UNCHANGED restOfCall
  /\ UNCHANGED bootTrace
  /\ UNCHANGED initVars
  /\ UNCHANGED workerIssued
  /\ UNCHANGED hostVars
  /\ UNCHANGED loopVars
  /\ UNCHANGED consoleVars

\* executeOnEmulationThread(callback, wait) called on the UI thread.
executeOnEmulationThread ==
  /\ Alive
  /\ CanCall
  /\ \E wait \in BOOLEAN :
       IF isOnWorkerThread(UI)
         THEN callDirect(UI, "executeOnEmulationThread", wait)
         ELSE invokeMethod("executeOnEmulationThread", wait, Queued, FALSE,
                           IF wait THEN [kind |-> "sync", id |-> nextId] ELSE Idle)
  /\ UNCHANGED restOfCall
  /\ UNCHANGED bootTrace
  /\ UNCHANGED initVars
  /\ UNCHANGED workerIssued
  /\ UNCHANGED hostVars
  /\ UNCHANGED loopVars
  /\ UNCHANGED consoleVars

\* stopThread: post doStopThread, then m_worker_thread->wait().
stopThread ==
  /\ Alive
  /\ ui.kind = "idle"
  /\ ~isOnWorkerThread(UI)
  /\ queue' = postEvent(queue, [id |-> nextId, op |-> "doStopThread", p |-> FALSE,
                                conn |-> Queued])
  /\ nextId' = nextId + 1
  /\ ui' = [kind |-> "join", id |-> nextId]
  /\ UNCHANGED <<bodyLog, finished, sys, returned, cancelled, doomed>>
  /\ UNCHANGED restOfCall
  /\ UNCHANGED <<activity, bootTrace>>
  /\ UNCHANGED initVars
  /\ UNCHANGED workerIssued
  /\ UNCHANGED hostVars
  /\ UNCHANGED loopVars
  /\ UNCHANGED consoleVars

----------------------------------------------------------------------------
(* The UI thread while it waits *)

\* The semaphore of a BlockingQueuedConnection is released: invokeMethod returns.
blockingCallReturns ==
  /\ Alive
  /\ ui.kind = "bqc"
  /\ ui.id \in semDone
  /\ ui' = Idle
  /\ returned' = returned \cup {ui.id}
  /\ UNCHANGED <<queue, nextId, cancelled, doomed, bodyLog, finished, sys>>
  /\ UNCHANGED restOfCall
  /\ UNCHANGED <<activity, bootTrace>>
  /\ UNCHANGED initVars
  /\ UNCHANGED workerIssued
  /\ UNCHANGED hostVars
  /\ UNCHANGED loopVars
  /\ UNCHANGED consoleVars

\* "while (!m_worker_thread_sync_execute_done.TryWait(10)) qApp->processEvents(...);
\*  m_worker_thread_sync_execute_done.Reset();"
syncExecuteReturns ==
  /\ Alive
  /\ ui.kind = "sync"
  /\ syncEvent
  /\ syncEvent' = FALSE
  /\ ui' = Idle
  /\ returned' = returned \cup {ui.id}
  /\ UNCHANGED <<queue, nextId, cancelled, doomed, bodyLog, finished, sys, wpc, wcur, wsub,
                 drainLeft, exitFlag, m_shutdown_flag, uiReq, semDone, fullscreenUI, booted,
                 snap, setVars>>
  /\ UNCHANGED <<activity, bootTrace>>
  /\ UNCHANGED initVars
  /\ UNCHANGED workerIssued
  /\ UNCHANGED hostVars
  /\ UNCHANGED loopVars
  /\ UNCHANGED consoleVars

\* The UI thread runs its event loop: in its main loop, or pumped by processEvents
\* while executeOnEmulationThread waits. Blocked on a semaphore or in
\* QThread::wait() it does not.
UIProcessesEvents == ui.kind \in {"idle", "sync"}

\* The UI thread serves a request of the worker that returns a value
\* (createDisplayRequested, updateDisplayRequested, messageConfirmed).
uiServesRequest ==
  /\ Alive
  /\ UIProcessesEvents
  /\ uiReq = "pending"
  /\ uiReq' = "done"
  /\ UNCHANGED <<callVars, bodyLog, finished, sys, wpc, wcur, wsub, drainLeft, exitFlag,
                 m_shutdown_flag, semDone, syncEvent, fullscreenUI, booted, snap, setVars>>
  /\ UNCHANGED <<activity, bootTrace>>
  /\ UNCHANGED initVars
  /\ UNCHANGED workerIssued
  /\ UNCHANGED hostVars
  /\ UNCHANGED loopVars
  /\ UNCHANGED consoleVars

\* m_worker_thread->wait() returns once the worker thread has ended.
threadJoined ==
  /\ Alive
  /\ ui.kind = "join"
  /\ wpc = "done"
  /\ ui' = [kind |-> "exit", id |-> 0]
  /\ UNCHANGED <<queue, nextId, cancelled, doomed, returned, bodyLog, finished, sys>>
  /\ UNCHANGED restOfCall
  /\ UNCHANGED <<activity, bootTrace>>
  /\ UNCHANGED initVars
  /\ UNCHANGED workerIssued
  /\ UNCHANGED hostVars
  /\ UNCHANGED loopVars
  /\ UNCHANGED consoleVars

----------------------------------------------------------------------------
(* threadEntryPoint: the run-loop *)

\* Variant: one processEvents pass delivers one posted event.
pendingEventsOne(q) == IF Len(q) > 0 THEN 1 ELSE 0

\* The posted events one processEvents pass delivers: those queued when it starts.
pendingEvents(q) == Len(q)

\* Variant: the frame is rendered before the input sources are polled.
afterFrameSwapped(step, throttle) ==
  <<"renderDisplay", "PollSources">>
    \o (IF step THEN <<"PauseSystem">> ELSE <<>>)
    \o <<"UpdatePerformanceCounters">>
    \o (IF throttle THEN <<"Throttle">> ELSE <<>>)
    \o <<"processEvents">>

\* What an iteration does after the emulation step, up to the start of processEvents.
afterFrameDoes(step, throttle) ==
  <<"PollSources">>
    \o (IF step THEN <<"PauseSystem">> ELSE <<>>)
    \o <<"renderDisplay", "UpdatePerformanceCounters">>
    \o (IF throttle THEN <<"Throttle">> ELSE <<>>)
    \o <<"processEvents">>

\* Variant: a pending frame step does not pause the system.
frameStepPausesNever(request) == FALSE

\* "if (m_frame_step_request) { m_frame_step_request = false; PauseSystem(true); }"
frameStepPauses(request) == request

\* Variant: a paused system is rendered whether or not the fullscreen UI exists.
parksAlways(fsui, s) == ~IsValid(s)

\* "if (!FullscreenUI::IsInitialized() || !System::IsValid())": the loop parks in exec().
parks(fsui, s) == ~fsui \/ ~IsValid(s)

\* Variant: the loop leaves whenever it comes to the top.
exitsLoopAlways(flag) == TRUE

\* "while (!m_shutdown_flag.load())"
exitsLoop(flag) == flag

loopRest == <<callVars, wcur, wsub, m_shutdown_flag, sys, uiReq, semDone, syncEvent,
              fullscreenUI, booted, bodyLog, finished, setVars>>

\* "while (!m_shutdown_flag.load())" and the branch taken by one iteration.
loopTop ==
  /\ Alive
  /\ wpc = "top"
  /\ IF exitsLoop(m_shutdown_flag)
       THEN wpc' = "teardown" /\ UNCHANGED <<drainLeft, exitFlag>>
       ELSE IF IsRunning(sys)
         THEN wpc' = "inFrame" /\ UNCHANGED <<drainLeft, exitFlag>>
         ELSE IF parks(fullscreenUI, sys)
           \* m_worker_thread_event_loop->exec() clears the exit flag on entry
           THEN wpc' = "exec" /\ exitFlag' = FALSE /\ drainLeft' = 0
           \* renderDisplay(), then processEvents(AllEvents)
           ELSE wpc' = "pe" /\ drainLeft' = pendingEvents(queue) /\ exitFlag' = exitFlag
  /\ UNCHANGED <<loopRest, snap>>
  /\ activity' = IF ~exitsLoop(m_shutdown_flag) /\ ~IsRunning(sys) /\ ~parks(fullscreenUI, sys)
                   THEN activity \cup Did(Worker, {"renderDisplay"})
                   ELSE activity
  /\ UNCHANGED bootTrace
  /\ UNCHANGED initVars
  /\ UNCHANGED workerIssued
  /\ UNCHANGED <<lifeVars, hostRest>>
  /\ renderDisplay(~exitsLoop(m_shutdown_flag) /\ ~IsRunning(sys)
                     /\ ~parks(fullscreenUI, sys), m_display)
  /\ iteration' = IF exitsLoop(m_shutdown_flag) \/ IsRunning(sys) THEN <<>>
                    ELSE IF parks(fullscreenUI, sys) THEN <<"exec">>
                    ELSE <<"renderDisplay", "processEvents">>
  /\ UNCHANGED <<m_display_all_frames, m_throttler_enabled, m_frame_step_request, steppedAt>>
  /\ UNCHANGED consoleVars

\* System::RunFrame() / RunFrames() returns.
runFrame ==
  /\ Alive
  /\ wpc = "inFrame"
  /\ wpc' = "postFrame"
  /\ snap' = QueuedIds(queue)
  /\ UNCHANGED <<loopRest, drainLeft, exitFlag>>
  /\ activity' = activity \cup Did(Worker, {"RunFrame"})
  /\ UNCHANGED bootTrace
  /\ UNCHANGED initVars
  /\ UNCHANGED workerIssued
  /\ UNCHANGED hostVars
  /\ iteration' = Append(iteration, IF m_display_all_frames THEN "RunFrame" ELSE "RunFrames")
  /\ UNCHANGED <<m_display_all_frames, m_throttler_enabled, m_frame_step_request, steppedAt>>
  /\ UNCHANGED consoleVars

\* PollSources, the pause of a pending frame step, renderDisplay,
\* UpdatePerformanceCounters, Throttle; then processEvents(AllEvents) starts.
afterFrame ==
  /\ Alive
  /\ wpc = "postFrame"
  /\ wpc' = "pe"
  /\ drainLeft' = pendingEvents(queue)
  /\ sys' = IF frameStepPauses(m_frame_step_request)
              THEN SystemAfter("pauseSystem", TRUE, sys)
              ELSE sys
  /\ m_frame_step_request' = FALSE
  /\ steppedAt' = IF m_frame_step_request THEN Len(bodyLog) + 1 ELSE 0
  /\ iteration' = iteration \o afterFrameDoes(m_frame_step_request, m_throttler_enabled)
  /\ activity' = activity \cup Did(Worker, {"PollSources", "renderDisplay"})
  /\ UNCHANGED <<callVars, wcur, wsub, m_shutdown_flag, uiReq, semDone, syncEvent,
                 fullscreenUI, booted, bodyLog, finished, setVars, exitFlag, snap>>
  /\ UNCHANGED <<bootTrace, initVars, workerIssued, consoleVars, m_display_all_frames,
                 m_throttler_enabled>>
  /\ SystemChanged(sys, sys')
  /\ UNCHANGED hostRest
  /\ renderDisplay(TRUE, m_display)

\* Variant: the iteration ends with processEvents.
afterProcessEventsNothing == <<>>

\* "m_worker_thread_event_loop->processEvents(QEventLoop::AllEvents); PollAndUpdate();"
afterProcessEvents == <<"PollAndUpdate">>

\* processEvents(AllEvents) has delivered its events; PollAndUpdate(); next iteration.
processEventsDone ==
  /\ Alive
  /\ wpc = "pe"
  /\ wcur = NoCmd
  /\ drainLeft = 0
  /\ wpc' = "top"
  /\ UNCHANGED <<loopRest, drainLeft, exitFlag, snap>>
  /\ activity' = activity \cup Did(Worker, Range(afterProcessEvents))
  /\ UNCHANGED bootTrace
  /\ UNCHANGED initVars
  /\ UNCHANGED workerIssued
  /\ UNCHANGED hostVars
  /\ iteration' = iteration \o afterProcessEvents
  /\ UNCHANGED <<m_display_all_frames, m_throttler_enabled, m_frame_step_request, steppedAt>>
  /\ UNCHANGED consoleVars

\* Inside exec(): another pass over the posted events.
execNextPass ==
  /\ Alive
  /\ wpc = "exec"
  /\ wcur = NoCmd
  /\ drainLeft = 0
  /\ ~exitFlag
  /\ queue # <<>>
  /\ drainLeft' = pendingEvents(queue)
  /\ UNCHANGED <<loopRest, wpc, exitFlag, snap>>
  /\ UNCHANGED <<activity, bootTrace>>
  /\ UNCHANGED initVars
  /\ UNCHANGED workerIssued
  /\ UNCHANGED hostVars
  /\ UNCHANGED loopVars
  /\ UNCHANGED consoleVars

\* exec() returns once quit() has set the exit flag; "continue".
execReturns ==
  /\ Alive
  /\ wpc = "exec"
  /\ wcur = NoCmd
  /\ drainLeft = 0
  /\ exitFlag
  /\ wpc' = "top"
  /\ UNCHANGED <<loopRest, drainLeft, exitFlag, snap>>
  /\ UNCHANGED <<activity, bootTrace>>
  /\ UNCHANGED initVars
  /\ UNCHANGED workerIssued
  /\ UNCHANGED hostVars
  /\ UNCHANGED loopVars
  /\ UNCHANGED consoleVars

\* The worker's event loop delivers the next posted call: its body starts.
deliver ==
  /\ Alive
  /\ wpc \in {"pe", "exec"}
  /\ wcur = NoCmd
  /\ drainLeft > 0
  /\ queue # <<>>
  /\ wcur' = Head(queue)
  /\ queue' = Tail(queue)
  /\ drainLeft' = drainLeft - 1
  /\ wsub' = "body"
  /\ bodyLog' = Append(bodyLog, [id |-> Head(queue).id, thr |-> slotThread])
  /\ UNCHANGED <<ui, nextId, cancelled, doomed, returned, wpc, exitFlag, m_shutdown_flag, sys,
                 uiReq, semDone, syncEvent, fullscreenUI, booted, finished, snap, setVars>>
  /\ UNCHANGED <<activity, bootTrace>>
  /\ UNCHANGED initVars
  /\ UNCHANGED workerIssued
  /\ UNCHANGED hostVars
  /\ UNCHANGED loopVars
  /\ UNCHANGED consoleVars

----------------------------------------------------------------------------
(* The bodies, executed by the worker thread *)

\* Variant: the wake is left out.
wakeThreadNever(woken) == exitFlag' = exitFlag

\* wakeThread() on the worker thread: m_worker_thread_event_loop->quit().
wakeThread(woken) == exitFlag' = (exitFlag \/ woken)

\* The slot returns: a BlockingQueuedConnection releases the caller's semaphore.
complete ==
  /\ wcur' = NoCmd
  /\ wsub' = "none"
  /\ finished' = finished \cup {wcur.id}
  /\ semDone' = IF wcur.conn = BlockingQueued THEN semDone \cup {wcur.id} ELSE semDone

InBody(op) == wcur.op = op /\ wsub = "body"
UIAnswered == wsub = "waitUI" /\ uiReq = "done" /\ ~asking

bodyRest == <<callVars, wpc, drainLeft, fullscreenUI, booted, bodyLog, snap, setVars>>

\* bootSystem on the worker: emit emulationStarting(); BootSystem(params), which
\* acquires the display from the UI thread (AcquireHostDisplay).
bootSystemStarts ==
  /\ Alive
  /\ InBody("bootSystem")
  /\ IF IsShutdown(sys)
       THEN /\ sys' = "Starting"
            /\ uiReq' = "pending"
            /\ wsub' = "waitUI"
            /\ UNCHANGED <<wcur, finished, semDone>>
       ELSE complete /\ UNCHANGED <<sys, uiReq>>
  /\ UNCHANGED <<bodyRest, exitFlag, m_shutdown_flag, syncEvent>>
  /\ bootTrace' = [id |-> wcur.id, evs |-> <<"emulationStarting", "BootSystem">>]
  /\ UNCHANGED activity
  /\ UNCHANGED initVars
  /\ UNCHANGED workerIssued
  /\ UNCHANGED <<lifeVars, noticeVars, resumeLog, nullRender>>
  /\ UNCHANGED loopVars
  /\ AcquireHostDisplay(IsShutdown(sys), FALSE)
  /\ UNCHANGED <<media, did, m_is_fullscreen, RenderToMainWindow>>


\* Variant: bootSystem renders a frame whatever BootSystem returned.
bootSystemRendersAlways(created) == <<"renderDisplay">>

\* "if (!BootSystem(std::move(params))) return; renderDisplay();"
bootSystemRenders(created) == IF created THEN <<"renderDisplay">> ELSE <<>>

\* Variant: the end of a boot attempt wakes the loop whatever its result.
OnSystemCreatedWakesAlways(created) == TRUE

\* "if (!BootSystem(...)) return;": OnSystemCreated, with its wakeThread(), runs
\* only for a system that was created.
OnSystemCreatedWakes(created) == created

\* BootSystem ends: cancelled or failed, or the system is created (OnSystemCreated
\* wakes the loop) and bootSystem renders a frame.
bootSystemEnds ==
  /\ Alive
  /\ wcur.op = "bootSystem"
  /\ UIAnswered
  /\ \E ok \in BOOLEAN :
       LET created == ok /\ wcur.id \notin cancelled IN
         /\ sys' = IF created THEN "Running" ELSE "Shutdown"
         /\ wakeThread(OnSystemCreatedWakes(created))
         /\ booted' = IF created THEN booted \cup {wcur.id} ELSE booted
         /\ bootTrace' = [bootTrace EXCEPT !.evs = @ \o bootSystemRenders(created)]
         /\ activity' = activity \cup Did(slotThread, Range(bootSystemRenders(created)))
  /\ uiReq' = "none"
  /\ complete
  /\ UNCHANGED <<callVars, wpc, drainLeft, fullscreenUI, bodyLog, snap, setVars,
                 m_shutdown_flag, syncEvent>>
  /\ UNCHANGED initVars
  /\ UNCHANGED workerIssued
  /\ SystemChanged(sys, sys')
  /\ UNCHANGED <<noticeVars, resumeLog>>
  /\ UNCHANGED loopVars
  /\ AcquireHostDisplay(FALSE, IsRunning(sys'))
  /\ UNCHANGED <<media, did, m_is_fullscreen, RenderToMainWindow>>
  /\ renderDisplay(bootSystemRenders(IsRunning(sys')) # <<>>, m_display')

\* pauseSystem on the worker: CommonHostInterface::PauseSystem(paused);
\* OnSystemPaused(false) wakes the loop.
pauseSystemBody ==
  /\ Alive
  /\ InBody("pauseSystem")
  /\ sys' = SystemAfter("pauseSystem", wcur.p, sys)
  /\ wakeThread(sys = "Paused" /\ ~wcur.p)
  /\ complete
  /\ UNCHANGED <<bodyRest, m_shutdown_flag, syncEvent, uiReq>>
  /\ activity' = activity \cup Rendering(slotThread, "pauseSystem", wcur.p, sys)
  /\ UNCHANGED bootTrace
  /\ UNCHANGED initVars
  /\ UNCHANGED workerIssued
  /\ SystemChanged(sys, sys')
  /\ UNCHANGED hostRest
  /\ renderDisplay(Rendering(slotThread, "pauseSystem", wcur.p, sys) # {}, m_display)
  /\ UNCHANGED loopVars
  /\ UNCHANGED consoleVars

\* singleStepCPU on the worker: System::SingleStepCPU(); renderDisplay().
singleStepCPUBody ==
  /\ Alive
  /\ InBody("singleStepCPU")
  /\ complete
  /\ UNCHANGED <<bodyRest, sys, exitFlag, m_shutdown_flag, syncEvent, uiReq>>
  /\ activity' = activity \cup Rendering(slotThread, "singleStepCPU", FALSE, sys)
  /\ UNCHANGED bootTrace
  /\ UNCHANGED initVars
  /\ UNCHANGED workerIssued
  /\ UNCHANGED <<lifeVars, hostRest>>
  /\ renderDisplay(Rendering(slotThread, "singleStepCPU", FALSE, sys) # {}, m_display)
  /\ UNCHANGED loopVars
  /\ did' = Done(IF HasNoSystem("singleStepCPU", sys) THEN "nothing" ELSE "SingleStepCPU")
  /\ UNCHANGED <<media, m_display, m_is_fullscreen, m_is_rendering_to_main,
                 RenderToMainWindow, applied>>

doStopThread ==
  /\ Alive
  /\ InBody("doStopThread")
  /\ m_shutdown_flag' = TRUE
  /\ wakeThread(TRUE)
  /\ complete
  /\ UNCHANGED <<bodyRest, sys, syncEvent, uiReq>>
  /\ UNCHANGED <<activity, bootTrace>>
  /\ UNCHANGED initVars
  /\ UNCHANGED workerIssued
  /\ UNCHANGED hostVars
  /\ UNCHANGED loopVars
  /\ UNCHANGED consoleVars

\* A body that must ask the UI thread and wait for the answer: the display of a
\* system booted from a state (createDisplayRequested), ReportError while
\* fullscreen (updateDisplayRequested), ConfirmMessage (messageConfirmed).
MustAskUI == wcur.op = "loadState" /\ IsShutdown(sys)
MayAskUI ==
  \/ wcur.op \in {"loadState", "executeOnEmulationThread"}
  \/ wcur.op \in {"powerOffSystem", "saveState"} /\ IsValid(sys)

\* "const bool was_fullscreen = m_is_fullscreen; if (was_fullscreen)
\* SetFullscreen(false);": m_is_fullscreen when the notification is emitted.
leavesFullscreen(fullscreen) == IF fullscreen THEN FALSE ELSE fullscreen

\* Variant: the call returns without entering fullscreen again.
reentersFullscreenNever(was, fullscreen) == fullscreen

\* "if (was_fullscreen) SetFullscreen(true);": m_is_fullscreen when the call returns.
reentersFullscreen(was, fullscreen) == IF was THEN TRUE ELSE fullscreen

bodyAsksUI ==
  /\ Alive
  /\ wsub = "body"
  /\ MayAskUI
  /\ uiReq' = "pending"
  /\ wsub' = "waitUI"
  /\ UNCHANGED <<bodyRest, wcur, finished, semDone, sys, exitFlag, m_shutdown_flag,
                 syncEvent>>
  /\ UNCHANGED <<activity, bootTrace>>
  /\ UNCHANGED initVars
  /\ UNCHANGED workerIssued
  /\ asking' = ~MustAskUI
  /\ was_fullscreen' = IF ~MustAskUI THEN m_is_fullscreen ELSE was_fullscreen
  /\ m_is_fullscreen' = IF ~MustAskUI THEN leavesFullscreen(m_is_fullscreen)
                                    ELSE m_is_fullscreen
  /\ noticeLog' = IF ~MustAskUI THEN noticeLog \cup {m_is_fullscreen'} ELSE noticeLog
  /\ UNCHANGED <<lifeVars, displayVars, resumeLog, nullRender>>
  /\ UNCHANGED loopVars
  /\ UNCHANGED <<media, did, m_display, m_is_rendering_to_main, RenderToMainWindow,
                 applied>>

\* ReportError or ConfirmMessage returns to the body that called it, once the UI
\* thread has answered.
noticeReturns ==
  /\ Alive
  /\ asking
  /\ wsub = "waitUI"
  /\ uiReq = "done"
  /\ asking' = FALSE
  /\ m_is_fullscreen' = reentersFullscreen(was_fullscreen, m_is_fullscreen)
  /\ UNCHANGED <<was_fullscreen, noticeLog>>
  /\ UNCHANGED <<bodyRest, wcur, wsub, finished, semDone, sys, exitFlag, m_shutdown_flag,
                 syncEvent, uiReq>>
  /\ UNCHANGED <<activity, bootTrace>>
  /\ UNCHANGED initVars
  /\ UNCHANGED workerIssued
  /\ UNCHANGED <<lifeVars, displayVars, resumeLog, nullRender>>
  /\ UNCHANGED loopVars
  /\ UNCHANGED <<media, did, m_display, m_is_rendering_to_main, RenderToMainWindow,
                 applied>>

\* The body proper runs from its start, or after the UI thread has answered.
Runs(op) ==
  /\ wcur.op = op
  /\ \/ wsub = "body" /\ ~MustAskUI
     \/ UIAnswered

powerOffSystemBody ==
  /\ Alive
  /\ Runs("powerOffSystem")
  /\ sys' = SystemAfter("powerOffSystem", FALSE, sys)
  /\ uiReq' = "none"
  /\ complete
  /\ UNCHANGED <<bodyRest, exitFlag, m_shutdown_flag, syncEvent>>
  /\ UNCHANGED <<activity, bootTrace>>
  /\ UNCHANGED initVars
  /\ UNCHANGED workerIssued
  /\ SystemChanged(sys, sys')
  /\ UNCHANGED <<noticeVars, resumeLog, nullRender>>
  /\ UNCHANGED loopVars
  /\ ReleaseHostDisplay(IsValid(sys))
  /\ UNCHANGED <<did, m_is_rendering_to_main, RenderToMainWindow>>

\* loadState on the worker: with no system it boots one from the state.
loadStateBody ==
  /\ Alive
  /\ Runs("loadState")
  /\ \E ok \in BOOLEAN :
       LET created == IsShutdown(sys) /\ ok IN
         /\ sys' = IF created THEN "Running" ELSE sys
         /\ wakeThread(created)
  /\ uiReq' = "none"
  /\ complete
  /\ UNCHANGED <<bodyRest, m_shutdown_flag, syncEvent>>
  /\ UNCHANGED <<activity, bootTrace>>
  /\ UNCHANGED initVars
  /\ UNCHANGED workerIssued
  /\ SystemChanged(sys, sys')
  /\ UNCHANGED <<noticeVars, resumeLog, nullRender>>
  /\ UNCHANGED loopVars
  /\ AcquireHostDisplay(IsShutdown(sys), IsShutdown(sys) /\ IsRunning(sys'))
  /\ UNCHANGED <<media, did, m_is_fullscreen, RenderToMainWindow>>

saveStateBody ==
  /\ Alive
  /\ Runs("saveState")
  /\ uiReq' = "none"
  /\ complete
  /\ UNCHANGED <<bodyRest, sys, exitFlag, m_shutdown_flag, syncEvent>>
  /\ UNCHANGED <<activity, bootTrace>>
  /\ UNCHANGED initVars
  /\ UNCHANGED workerIssued
  /\ UNCHANGED hostVars
  /\ UNCHANGED loopVars
  /\ did' = Done(IF HasNoSystem("saveState", sys) THEN "nothing" ELSE "SaveState")
  /\ UNCHANGED <<media, m_display, m_is_fullscreen, m_is_rendering_to_main,
                 RenderToMainWindow, applied>>

\* RunLater(func): the call is posted whatever the calling thread.
RunLater == invokeMethod("executeOnEmulationThread", FALSE, Queued, FALSE, ui)

\* The callback of executeOnEmulationThread, running on the worker, calls a
\* public operation: pauseSystem(paused), or RunLater(func).
callbackCalls ==
  /\ Alive
  /\ Runs("executeOnEmulationThread")
  /\ nextId <= MaxCmds
  /\ \/ \E paused \in BOOLEAN : Marshal(slotThread, "pauseSystem", paused, Queued, FALSE)
     \/ RunLater
  /\ wakeThread(sys = "Paused" /\ IsRunning(sys'))
  /\ workerIssued' = workerIssued \cup {nextId}
  /\ wsub' = "called"
  /\ uiReq' = "none"
  /\ UNCHANGED <<wpc, wcur, drainLeft, semDone, m_shutdown_flag, syncEvent,
                 fullscreenUI, booted, snap, setVars, bootTrace, initVars,
                 consoleVars, loopVars>>
  /\ SystemChanged(sys, sys')
  /\ UNCHANGED hostRest
  /\ renderDisplay(IsRunning(sys) /\ sys' = "Paused", m_display)

\* executeOnEmulationThread on the worker: "callback(); if (wait) Signal();". The
\* callback may itself call executeOnEmulationThread(inner, w), which takes the
\* same branch.
executeBody ==
  /\ Alive
  /\ Runs("executeOnEmulationThread") \/ (wcur.op = "executeOnEmulationThread" /\ wsub = "called")
  /\ \E inner \in {"none", "wait", "nowait"} :
       syncEvent' = (syncEvent \/ inner = "wait" \/ wcur.p)
  /\ uiReq' = "none"
  /\ complete
  /\ UNCHANGED <<bodyRest, sys, exitFlag, m_shutdown_flag>>
  /\ UNCHANGED <<activity, bootTrace>>
  /\ UNCHANGED initVars
  /\ UNCHANGED workerIssued
  /\ UNCHANGED hostVars
  /\ UNCHANGED loopVars
  /\ UNCHANGED consoleVars

----------------------------------------------------------------------------
(* Operations on the running system and on its display *)

\* resetSystem() called on the UI thread.
resetSystem ==
  /\ Alive
  /\ CanCall
  /\ Marshal(UI, "resetSystem", FALSE, Queued, FALSE)
  /\ UNCHANGED restOfCall
  /\ UNCHANGED bootTrace
  /\ UNCHANGED initVars
  /\ UNCHANGED workerIssued
  /\ UNCHANGED hostVars
  /\ UNCHANGED loopVars
  /\ UNCHANGED consoleVars

\* changeDisc(new_disc_filename) called on the UI thread; named: the filename is not empty.
changeDisc ==
  /\ Alive
  /\ CanCall
  /\ \E named \in BOOLEAN : Marshal(UI, "changeDisc", named, Queued, FALSE)
  /\ UNCHANGED restOfCall
  /\ UNCHANGED bootTrace
  /\ UNCHANGED initVars
  /\ UNCHANGED workerIssued
  /\ UNCHANGED hostVars
  /\ UNCHANGED loopVars
  /\ UNCHANGED consoleVars

\* changeDiscFromPlaylist(index) called on the UI thread.
changeDiscFromPlaylist ==
  /\ Alive
  /\ CanCall
  /\ Marshal(UI, "changeDiscFromPlaylist", FALSE, Queued, FALSE)
  /\ UNCHANGED restOfCall
  /\ UNCHANGED bootTrace
  /\ UNCHANGED initVars
  /\ UNCHANGED workerIssued
  /\ UNCHANGED hostVars
  /\ UNCHANGED loopVars
  /\ UNCHANGED consoleVars

\* applySettings(display_osd_messages) called on the UI thread.
applySettings ==
  /\ Alive
  /\ CanCall
  /\ \E display_osd_messages \in BOOLEAN :
       Marshal(UI, "applySettings", display_osd_messages, Queued, FALSE)
  /\ UNCHANGED restOfCall
  /\ UNCHANGED bootTrace
  /\ UNCHANGED initVars
  /\ UNCHANGED workerIssued
  /\ UNCHANGED hostVars
  /\ UNCHANGED loopVars
  /\ UNCHANGED consoleVars

\* toggleFullscreen() called on the UI thread.
toggleFullscreen ==
  /\ Alive
  /\ CanCall
  /\ Marshal(UI, "toggleFullscreen", FALSE, Queued, FALSE)
  /\ UNCHANGED restOfCall
  /\ UNCHANGED bootTrace
  /\ UNCHANGED initVars
  /\ UNCHANGED workerIssued
  /\ UNCHANGED hostVars
  /\ UNCHANGED loopVars
  /\ UNCHANGED consoleVars

\* The end of a body: when it calls updateDisplayState() on an existing display the
\* worker emits updateDisplayRequested and blocks until the UI thread has served it.
thenUpdateDisplay(updates) ==
  IF updates
    THEN /\ uiReq' = "pending"
         /\ wsub' = "updating"
         /\ UNCHANGED <<wcur, finished, semDone>>
    ELSE /\ complete
         /\ uiReq' = uiReq

consoleQuiet == <<bodyRest, exitFlag, m_shutdown_flag, syncEvent, bootTrace, initVars,
                  workerIssued, loopVars, lifeVars, noticeVars, resumeLog>>

consoleRest == <<consoleQuiet, displayVars, nullRender>>

\* resetSystem on the worker.
resetSystemBody ==
  /\ Alive
  /\ InBody("resetSystem")
  /\ did' = Done(IF HasNoSystem("resetSystem", sys) THEN "nothing" ELSE "ResetSystem")
  /\ complete
  /\ UNCHANGED <<consoleRest, sys, uiReq, activity, media, m_display, m_is_fullscreen,
                 m_is_rendering_to_main, RenderToMainWindow, applied>>

\* changeDisc on the worker: InsertMedia(filename), or RemoveMedia() for an empty name.
changeDiscBody ==
  /\ Alive
  /\ InBody("changeDisc")
  /\ IF HasNoSystem("changeDisc", sys)
       THEN /\ did' = Done("nothing")
            /\ media' = media
       ELSE /\ did' = Done(IF wcur.p THEN "InsertMedia" ELSE "RemoveMedia")
            /\ media' = IF wcur.p THEN "disc" ELSE "none"
  /\ complete
  /\ UNCHANGED <<consoleRest, sys, uiReq, activity, m_display, m_is_fullscreen,
                 m_is_rendering_to_main, RenderToMainWindow, applied>>

\* changeDiscFromPlaylist on the worker: SwitchMediaSubImage(index), and ReportError
\* when it fails; ReportError leaves fullscreen around the report and restores it.
changeDiscFromPlaylistBody ==
  /\ Alive
  /\ InBody("changeDiscFromPlaylist")
  /\ IF HasNoSystem("changeDiscFromPlaylist", sys)
       THEN /\ did' = Done("nothing")
            /\ media' = media
            /\ thenUpdateDisplay(FALSE)
       ELSE \E switched \in BOOLEAN :
              /\ did' = Done(IF switched THEN "SwitchMediaSubImage" ELSE "ReportError")
              /\ media' = IF switched THEN "sub" ELSE media
              /\ thenUpdateDisplay(~switched)
  /\ UNCHANGED <<consoleRest, sys, activity, m_display, m_is_fullscreen,
                 m_is_rendering_to_main, RenderToMainWindow, applied>>

\* applySettings on the worker: ApplySettings(), which ends in checkRenderToMainState().
applySettingsBody ==
  /\ Alive
  /\ InBody("applySettings")
  /\ checkRenderToMainState(RenderToMainWindow)
  /\ applied' = IF IsValid(sys) /\ m_display
                  THEN [done |-> TRUE, value |-> RenderToMainWindow]
                  ELSE applied
  /\ activity' = activity \cup
       (IF ~IsShutdown(sys) /\ ~NeedsModeSwitch(RenderToMainWindow) /\ ~fullscreenUI
          THEN Did(slotThread, {"renderDisplay"})
          ELSE {})
  /\ thenUpdateDisplay(NeedsModeSwitch(RenderToMainWindow))
  /\ renderDisplay(~IsShutdown(sys) /\ ~NeedsModeSwitch(RenderToMainWindow)
                     /\ ~fullscreenUI, m_display)
  /\ UNCHANGED <<consoleQuiet, displayVars, sys, media, did, m_display, m_is_fullscreen,
                 RenderToMainWindow>>

\* SetFullscreen(enabled): "m_is_fullscreen = enabled; updateDisplayState();".
SetFullscreen(enabled) ==
  /\ m_is_fullscreen' = enabled
  /\ thenUpdateDisplay(m_is_fullscreen # enabled /\ m_display)

\* toggleFullscreen on the worker.
toggleFullscreenBody ==
  /\ Alive
  /\ InBody("toggleFullscreen")
  /\ SetFullscreen(~m_is_fullscreen)
  /\ UNCHANGED <<consoleRest, sys, activity, media, did, m_display,
                 m_is_rendering_to_main, RenderToMainWindow, applied>>

\* updateDisplayState past updateDisplayRequested: the window is redrawn when a
\* system exists and the fullscreen UI does not draw it.
updateDisplayState ==
  /\ Alive
  /\ wsub = "updating"
  /\ uiReq = "done"
  /\ uiReq' = "none"
  /\ activity' = activity \cup
       (IF ~IsShutdown(sys) /\ ~fullscreenUI THEN Did(slotThread, {"renderDisplay"}) ELSE {})
  /\ complete
  \* "m_is_exclusive_fullscreen = m_display->IsFullscreen();"
  /\ \E exclusive \in {FALSE, m_is_fullscreen} : m_is_exclusive_fullscreen' = exclusive
  /\ UNCHANGED <<m_lost_exclusive_fullscreen, displayNo, lostOn, displayAssert>>
  \* redrawDisplayWindow: "if (!m_display || System::IsShutdown()) return;"
  /\ renderDisplay(m_display /\ ~IsShutdown(sys) /\ ~fullscreenUI, m_display)
  /\ UNCHANGED <<consoleQuiet, sys, consoleVars>>

----------------------------------------------------------------------------
(* The events of the display window, delivered to the worker thread *)

\* "if (m_is_exclusive_fullscreen && !m_display->IsFullscreen())"
lostExclusive(exclusive, device_fullscreen) == exclusive /\ ~device_fullscreen

\* onDisplayWindowResized, between two commands: "if (!m_display) return;"; with a
\* system it notes the loss of exclusive fullscreen and redraws.
onDisplayWindowResized ==
  /\ Alive
  /\ wpc \in {"pe", "exec"}
  /\ wcur = NoCmd
  /\ \E device_fullscreen \in BOOLEAN :
       LET lost == /\ m_display
                   /\ ~IsShutdown(sys)
                   /\ lostExclusive(m_is_exclusive_fullscreen, device_fullscreen)
       IN /\ m_is_exclusive_fullscreen' = (m_is_exclusive_fullscreen /\ ~lost)
          /\ m_is_fullscreen' = (m_is_fullscreen /\ ~lost)
          /\ m_lost_exclusive_fullscreen' = (m_lost_exclusive_fullscreen \/ lost)
          /\ lostOn' = IF lost THEN displayNo + 1 ELSE lostOn
  /\ renderDisplay(m_display /\ ~IsShutdown(sys) /\ ~fullscreenUI, m_display)
  /\ activity' = activity \cup
       (IF m_display /\ ~IsShutdown(sys) /\ ~fullscreenUI
          THEN Did(slotThread, {"renderDisplay"}) ELSE {})
  /\ UNCHANGED <<callVars, bodyLog, finished, sys, restOfCall, bootTrace, initVars,
                 workerIssued, lifeVars, noticeVars, resumeLog, loopVars, media, did,
                 m_display, m_is_rendering_to_main, RenderToMainWindow, applied,
                 displayNo, displayAssert>>

\* "if (!m_display || !m_lost_exclusive_fullscreen) return;"
restoresFullscreen(display, lost) == display /\ lost

\* onDisplayWindowFocused, between two commands: with the flag set it goes back to
\* fullscreen, updateDisplayState() being served by the UI thread.
onDisplayWindowFocused ==
  /\ Alive
  /\ wpc \in {"pe", "exec"}
  /\ wcur = NoCmd
  /\ restoresFullscreen(m_display, m_lost_exclusive_fullscreen)
  /\ UIProcessesEvents
  /\ m_lost_exclusive_fullscreen' = FALSE
  /\ m_is_fullscreen' = TRUE
  \* updateDisplayState: "m_is_exclusive_fullscreen = m_display->IsFullscreen();"
  /\ m_is_exclusive_fullscreen' \in BOOLEAN
  /\ UNCHANGED lostOn
  /\ renderDisplay(m_display /\ ~IsShutdown(sys) /\ ~fullscreenUI, m_display)
  /\ activity' = activity \cup
       (IF ~IsShutdown(sys) /\ ~fullscreenUI THEN Did(slotThread, {"renderDisplay"}) ELSE {})
  /\ UNCHANGED <<callVars, bodyLog, finished, sys, restOfCall, bootTrace, initVars,
                 workerIssued, lifeVars, noticeVars, resumeLog, loopVars, media, did,
                 m_display, m_is_rendering_to_main, RenderToMainWindow, applied,
                 displayNo, displayAssert>>

----------------------------------------------------------------------------
(* QtHost: the settings store and its debounced save *)

\* QtHost::SaveSettings asserts this of the thread t it runs on.
SavingThreadOk(t) == ~isOnWorkerThread(t)

WithoutTimer(ts, id) == {tm \in ts : tm.id # id}

\* QtHost::QueueSettingsSave: "if (s_settings_save_timer) return;"
SaveAlreadyQueued == s_settings_save_timer # 0

\* QtHost::QueueSettingsSave past its check, on thread t: a new single-shot QTimer is
\* constructed on t, stored in s_settings_save_timer and started. When another
\* thread stored a timer since the check, the unsynchronised assignment either
\* deletes that timer or loses it.
startSaveTimer(t) ==
  /\ \E deleted \in BOOLEAN :
       timers' = (IF deleted THEN WithoutTimer(timers, s_settings_save_timer) ELSE timers)
                   \cup {[id |-> nextTimer, owner |-> t, armed |-> TRUE]}
  /\ s_settings_save_timer' = nextTimer
  /\ nextTimer' = nextTimer + 1
  /\ saves' = IF s_settings_save_timer = 0 THEN 0 ELSE saves

uiSetRest == <<queue, cancelled, doomed, returned, wpc, wcur, wsub, drainLeft, exitFlag,
               m_shutdown_flag, sys, uiReq, semDone, syncEvent, fullscreenUI, booted, bodyLog,
               finished, snap>>

\* QtHost::SetBase*SettingValue on the UI thread: lock, set the value, ...
SetBaseSettingValue ==
  /\ Alive
  /\ CanCall
  /\ lock = "none"
  /\ lock' = UI
  /\ settingsVer' = settingsVer + 1
  /\ ui' = [kind |-> "qss", id |-> 0]
  /\ nextId' = nextId + 1
  /\ UNCHANGED <<uiSetRest, diskVer, s_settings_save_timer, timers, nextTimer, saves>>
  /\ UNCHANGED <<activity, bootTrace>>
  /\ UNCHANGED initVars
  /\ UNCHANGED workerIssued
  /\ UNCHANGED hostVars
  /\ UNCHANGED loopVars
  /\ RenderToMainWindow' \in BOOLEAN
  /\ UNCHANGED <<media, did, m_display, m_is_fullscreen, m_is_rendering_to_main, applied>>

\* ... QueueSettingsSave(): the check; the lock is released on return.
uiQueueSettingsSave ==
  /\ Alive
  /\ ui.kind = "qss"
  /\ IF SaveAlreadyQueued
       THEN ui' = Idle /\ lock' = "none"
       ELSE ui' = [kind |-> "qssCreate", id |-> 0] /\ lock' = lock
  /\ UNCHANGED <<uiSetRest, nextId, settingsVer, diskVer, s_settings_save_timer, timers,
                 nextTimer, saves>>
  /\ UNCHANGED <<activity, bootTrace>>
  /\ UNCHANGED initVars
  /\ UNCHANGED workerIssued
  /\ UNCHANGED hostVars
  /\ UNCHANGED loopVars
  /\ UNCHANGED consoleVars

uiStartsSaveTimer ==
  /\ Alive
  /\ ui.kind = "qssCreate"
  /\ startSaveTimer(UI)
  /\ lock' = "none"
  /\ ui' = Idle
  /\ UNCHANGED <<uiSetRest, nextId, settingsVer, diskVer>>
  /\ UNCHANGED <<activity, bootTrace>>
  /\ UNCHANGED initVars
  /\ UNCHANGED workerIssued
  /\ UNCHANGED hostVars
  /\ UNCHANGED loopVars
  /\ UNCHANGED consoleVars

\* A save timer owned by the UI thread times out in the UI event loop:
\* QtHost::SaveSettings up to the end of its locked block.
uiSaveSettings ==
  /\ Alive
  /\ ui.kind = "idle"
  /\ lock = "none"
  /\ \E tm \in timers :
       /\ tm.owner = UI /\ tm.armed
       /\ timers' = (timers \ {tm}) \cup {[tm EXCEPT !.armed = FALSE]}
  /\ IF SavingThreadOk(UI)
       THEN /\ diskVer' = settingsVer
            /\ iniFile' = layer.version
            /\ saves' = saves + 1
            /\ ui' = [kind |-> "saveRelease", id |-> 0]
       ELSE /\ ui' = [kind |-> "crashed", id |-> 0]
            /\ UNCHANGED <<diskVer, saves, iniFile>>
  /\ UNCHANGED <<uiSetRest, nextId, settingsVer, s_settings_save_timer, nextTimer, lock>>
  /\ UNCHANGED <<activity, bootTrace>>
  /\ UNCHANGED <<m_init_result, m_init_event, initRet, translator, layer, fileAtStart,
                 initLog, objectThread>>
  /\ UNCHANGED workerIssued
  /\ UNCHANGED hostVars
  /\ UNCHANGED loopVars
  /\ UNCHANGED consoleVars

\* "s_settings_save_timer->deleteLater(); s_settings_save_timer.release();"
uiReleasesSaveTimer ==
  /\ Alive
  /\ ui.kind = "saveRelease"
  /\ IF s_settings_save_timer = 0
       THEN ui' = [kind |-> "crashed", id |-> 0] /\ timers' = timers
       ELSE ui' = Idle /\ timers' = WithoutTimer(timers, s_settings_save_timer)
  /\ s_settings_save_timer' = 0
  /\ UNCHANGED <<uiSetRest, nextId, settingsVer, diskVer, nextTimer, lock, saves>>
  /\ UNCHANGED <<activity, bootTrace>>
  /\ UNCHANGED initVars
  /\ UNCHANGED workerIssued
  /\ UNCHANGED hostVars
  /\ UNCHANGED loopVars
  /\ UNCHANGED consoleVars

\* setDefaultSettings() called on the UI thread.
setDefaultSettings ==
  /\ Alive
  /\ CanCall
  /\ Marshal(UI, "setDefaultSettings", FALSE, Queued, FALSE)
  /\ UNCHANGED restOfCall
  /\ UNCHANGED bootTrace
  /\ UNCHANGED initVars
  /\ UNCHANGED workerIssued
  /\ UNCHANGED hostVars
  /\ UNCHANGED loopVars
  /\ UNCHANGED consoleVars

wkSetRest == <<callVars, wpc, drainLeft, exitFlag, m_shutdown_flag, sys, uiReq, syncEvent,
               fullscreenUI, booted, bodyLog, snap>>

\* SetDefaultSettings() on the worker: CommonHostInterface::SetDefaultSettings()
\* rewrites the base layer; ...
SetDefaultSettings ==
  /\ Alive
  /\ InBody("setDefaultSettings")
  /\ lock = "none"
  /\ settingsVer' = settingsVer + 1
  /\ wsub' = "qss"
  /\ UNCHANGED <<wkSetRest, wcur, finished, semDone, diskVer, s_settings_save_timer,
                 timers, nextTimer, lock, saves>>
  /\ UNCHANGED <<activity, bootTrace>>
  /\ UNCHANGED initVars
  /\ UNCHANGED workerIssued
  /\ UNCHANGED <<lifeVars, hostRest>>
  /\ renderDisplay(~IsShutdown(sys) /\ ~NeedsModeSwitch(TRUE) /\ ~fullscreenUI, m_display)
  /\ UNCHANGED loopVars
  /\ RenderToMainWindow' = TRUE
  /\ checkRenderToMainState(TRUE)
  /\ UNCHANGED <<media, did, m_display, m_is_fullscreen, applied>>

\* ... queueSettingsSave(), without the settings lock: the check.
workerQueueSettingsSave ==
  /\ Alive
  /\ wcur.op = "setDefaultSettings"
  /\ wsub = "qss"
  /\ IF SaveAlreadyQueued
       THEN complete
       ELSE wsub' = "qssCreate" /\ UNCHANGED <<wcur, finished, semDone>>
  /\ UNCHANGED <<wkSetRest, setVars>>
  /\ UNCHANGED <<activity, bootTrace>>
  /\ UNCHANGED initVars
  /\ UNCHANGED workerIssued
  /\ UNCHANGED hostVars
  /\ UNCHANGED loopVars
  /\ UNCHANGED consoleVars

workerStartsSaveTimer ==
  /\ Alive
  /\ wcur.op = "setDefaultSettings"
  /\ wsub = "qssCreate"
  /\ startSaveTimer(Worker)
  /\ complete
  /\ UNCHANGED <<wkSetRest, settingsVer, diskVer, lock>>
  /\ UNCHANGED <<activity, bootTrace>>
  /\ UNCHANGED initVars
  /\ UNCHANGED workerIssued
  /\ UNCHANGED hostVars
  /\ UNCHANGED loopVars
  /\ UNCHANGED consoleVars

\* A save timer owned by the worker thread times out in the worker's event loop:
\* QtHost::SaveSettings runs on the worker thread.
workerSaveSettings ==
  /\ Alive
  /\ wpc \in {"pe", "exec"}
  /\ wcur = NoCmd
  /\ lock = "none"
  /\ \E tm \in timers :
       /\ tm.owner = Worker /\ tm.armed
       /\ timers' = (timers \ {tm}) \cup {[tm EXCEPT !.armed = FALSE]}
  /\ IF SavingThreadOk(Worker)
       THEN diskVer' = settingsVer /\ saves' = saves + 1 /\ wpc' = wpc
       ELSE wpc' = "crashed" /\ UNCHANGED <<diskVer, saves>>
  /\ UNCHANGED <<callVars, wcur, wsub, finished, semDone, drainLeft, exitFlag,
                 m_shutdown_flag, sys, uiReq, syncEvent, fullscreenUI, booted, bodyLog, snap,
                 settingsVer, s_settings_save_timer, nextTimer, lock>>
  /\ UNCHANGED <<activity, bootTrace>>
  /\ UNCHANGED initVars
  /\ UNCHANGED workerIssued
  /\ UNCHANGED hostVars
  /\ UNCHANGED loopVars
  /\ UNCHANGED consoleVars

\* The end of threadEntryPoint: shutdownOnThread(); the event loop is deleted;
\* "if (s_settings_save_timer) { s_settings_save_timer.reset(); QtHost::SaveSettings(); }"
\* moveToThread(m_original_thread).
teardown ==
  /\ Alive
  /\ wpc = "teardown"
  /\ IF s_settings_save_timer # 0
       THEN /\ timers' = WithoutTimer(timers, s_settings_save_timer)
            /\ s_settings_save_timer' = 0
            \* SaveSettings: its assertion; past it, the timer it releases is null
            /\ wpc' = "crashed"
            /\ IF SavingThreadOk(Worker)
                 THEN diskVer' = settingsVer /\ saves' = saves + 1
                 ELSE UNCHANGED <<diskVer, saves>>
       ELSE /\ wpc' = "done"
            /\ UNCHANGED <<timers, s_settings_save_timer, diskVer, saves>>
  /\ UNCHANGED <<callVars, wcur, wsub, finished, semDone, drainLeft, exitFlag,
                 m_shutdown_flag, uiReq, syncEvent, fullscreenUI, booted, bodyLog, snap,
                 settingsVer, nextTimer, lock>>
  /\ UNCHANGED <<activity, bootTrace>>
  \* moveToThread(m_original_thread), the last statement
  /\ objectThread' = IF wpc' = "done" THEN UI ELSE objectThread
  /\ UNCHANGED <<m_init_result, m_init_event, initRet, translator, layer, iniFile,
                 fileAtStart, initLog>>
  /\ UNCHANGED workerIssued
  \* shutdownOnThread: destroyBackgroundControllerPollTimer();
  \* CommonHostInterface::Shutdown(), which releases the system and its display
  /\ pollTimer' = FALSE
  /\ sys' = Shutdown(sys)
  /\ ReleaseHostDisplay(IsValid(sys))
  /\ UNCHANGED <<lastEmit, announced, noticeVars, resumeLog, nullRender>>
  /\ UNCHANGED loopVars
  /\ UNCHANGED <<did, m_is_rendering_to_main, RenderToMainWindow>>

\* ~QtHostInterface, once the worker thread has been joined: "Assert(!m_display);".
destroyQtHostInterface ==
  /\ Alive
  /\ ui.kind = "exit"
  /\ ui' = [kind |-> "destroyed", id |-> 0]
  /\ displayAssert' = (displayAssert \/ m_display)
  /\ UNCHANGED <<m_is_exclusive_fullscreen, m_lost_exclusive_fullscreen, displayNo, lostOn>>
  /\ UNCHANGED <<queue, nextId, cancelled, doomed, returned, bodyLog, finished, sys>>
  /\ UNCHANGED restOfCall
  /\ UNCHANGED <<activity, bootTrace>>
  /\ UNCHANGED initVars
  /\ UNCHANGED workerIssued
  /\ UNCHANGED <<lifeVars, noticeVars, resumeLog, nullRender>>
  /\ UNCHANGED loopVars
  /\ UNCHANGED consoleVars

----------------------------------------------------------------------------
(* Initialize, and initializeOnThread on the worker thread *)

\* The version stamps a settings file can hold; "absent" is the -1 that
\* GetIntValue("Main", "SettingsVersion", -1) returns for a missing key.
SETTINGS_VERSION == "SETTINGS_VERSION"
Absent == "absent"
Older == "older"
Unreadable == "unreadable"
FileStates == {Unreadable, Absent, Older, SETTINGS_VERSION}

\* Variant: only a missing stamp counts as a mismatch.
versionMismatchIfAbsent(v) == v = Absent

\* "if (settings_version != SETTINGS_VERSION)"
versionMismatch(v) == v # SETTINGS_VERSION

\* SetDefaultSettings(si): writes the default values; the stamp is not one of them.
SetDefaultSettingsLayer(l) == [l EXCEPT !.values = "defaults"]

\* s_base_settings_interface->Load(), and SetDefaultSettings when it failed.
loadedLayer(file) ==
  IF file = Unreadable
    THEN SetDefaultSettingsLayer([version |-> Absent, values |-> "none"])
    ELSE [version |-> file, values |-> "file"]

\* Clear(); SetIntValue("Main", "SettingsVersion", SETTINGS_VERSION); SetDefaultSettings(si).
resetLayer == SetDefaultSettingsLayer([version |-> SETTINGS_VERSION, values |-> "none"])

\* Variant: Initialize() does not wait for the worker.
initPublishedAlways == TRUE

\* "while (!m_init_event.TryWait(100)) processEvents(...)"
initPublished == m_init_event

initRest == <<queue, nextId, wcur, wsub, drainLeft, exitFlag, m_shutdown_flag, sys,
              cancelled, uiReq, semDone, syncEvent, fullscreenUI, bodyLog, finished,
              returned, snap, setVars, booted, doomed, activity, bootTrace, workerIssued,
              consoleVars, loopVars, objectThread, lastEmit, announced, hostRest,
              nullRender>>

\* threadEntryPoint up to the call of setInitResult: initializeOnThread().
initializeOnThread ==
  /\ Alive
  /\ wpc = "init"
  /\ LET loaded == iniFile # Unreadable
         l == loadedLayer(iniFile)
         mismatch == versionMismatch(l.version)
     IN /\ layer' = IF mismatch THEN resetLayer ELSE l
        /\ \E saved \in BOOLEAN :
             iniFile' = IF mismatch /\ saved THEN SETTINGS_VERSION ELSE iniFile
        /\ initLog' = <<"Load">>
                        \o (IF loaded THEN <<>> ELSE <<"SetDefaultSettings">>)
                        \o (IF mismatch
                              THEN <<"ReportError", "Clear", "SetIntValue",
                                     "SetDefaultSettings", "Save">>
                              ELSE <<>>)
                        \o <<"Initialize">>
  \* "createBackgroundControllerPollTimer(); startBackgroundControllerPollTimer();
  \* return true;"
  /\ \E ok \in BOOLEAN :
       /\ wpc' = IF ok THEN "initTrue" ELSE "initFalse"
       /\ pollTimer' = IF ok THEN startBackgroundControllerPollTimer(pollTimer)
                             ELSE pollTimer
  /\ UNCHANGED <<initRest, ui, m_init_result, m_init_event, initRet, translator,
                 fileAtStart>>

\* Thread::setInitResult: the result is stored, the event signalled; the run-loop
\* starts whatever the result.
setInitResult ==
  /\ Alive
  /\ wpc \in {"initTrue", "initFalse"}
  /\ m_init_result' = (wpc = "initTrue")
  /\ m_init_event' = TRUE
  /\ wpc' = "top"
  /\ UNCHANGED <<initRest, ui, initRet, translator, layer, iniFile, fileAtStart, initLog>>
  /\ UNCHANGED pollTimer

\* Initialize() on the UI thread, after createThread(): waitForInit() returns and
\* the translator is installed when the result is true.
waitForInit ==
  /\ Alive
  /\ ui.kind = "init"
  /\ initPublished
  /\ initRet' = IF m_init_result THEN "true" ELSE "false"
  /\ translator' = m_init_result
  /\ ui' = IF m_init_result THEN Idle ELSE [kind |-> "initFailed", id |-> 0]
  /\ UNCHANGED <<initRest, wpc, m_init_result, m_init_event, layer, iniFile, fileAtStart,
                 initLog>>
  /\ UNCHANGED pollTimer

----------------------------------------------------------------------------
(* Specifications *)

\* The state of a constructed QtHostInterface, but for the two threads' places.
Fresh ==
  /\ queue = <<>>
  /\ nextId = 1
  /\ wcur = NoCmd
  /\ wsub = "none"
  /\ drainLeft = 0
  /\ exitFlag = FALSE
  /\ m_shutdown_flag = FALSE
  /\ cancelled = {}
  /\ uiReq = "none"
  /\ semDone = {}
  /\ syncEvent = FALSE
  /\ fullscreenUI \in BOOLEAN
  /\ bodyLog = <<>>
  /\ finished = {}
  /\ returned = {}
  /\ snap = {}
  /\ settingsVer = 0
  /\ diskVer = 0
  /\ s_settings_save_timer = 0
  /\ timers = {}
  /\ nextTimer = 1
  /\ lock = "none"
  /\ saves = 0
  /\ booted = {}
  /\ doomed = {}
  /\ activity = {}
  /\ bootTrace = [id |-> 0, evs |-> <<>>]
  /\ workerIssued = {}
  /\ media = "none"
  /\ did = {}
  /\ m_is_rendering_to_main = TRUE
  /\ RenderToMainWindow = TRUE
  /\ applied = [done |-> FALSE, value |-> TRUE]
  /\ iteration = <<>>
  /\ steppedAt = 0
  /\ objectThread = Worker
  /\ lastEmit = <<>>
  /\ asking = FALSE
  /\ was_fullscreen = FALSE
  /\ noticeLog = {}
  /\ m_lost_exclusive_fullscreen = FALSE
  /\ displayNo = 0
  /\ lostOn = 0
  /\ nullRender = FALSE
  /\ displayAssert = FALSE
  /\ resumeLog = <<>>

\* No system has been booted.
Unbooted ==
  /\ sys = "Shutdown"
  /\ m_display_all_frames = FALSE
  /\ m_throttler_enabled = TRUE
  /\ m_frame_step_request = FALSE
  /\ m_display = FALSE
  /\ m_is_fullscreen = FALSE

\* Before Initialize(): the UI thread is about to call it, no worker thread yet.
Constructed ==
  /\ Fresh
  /\ Unbooted
  /\ pollTimer = FALSE
  /\ announced = FALSE
  /\ m_is_exclusive_fullscreen = FALSE
  /\ ui = [kind |-> "init", id |-> 0]
  /\ wpc = "init"
  /\ m_init_result = FALSE
  /\ m_init_event = FALSE
  /\ initRet = "none"
  /\ translator = FALSE
  /\ layer = [version |-> Absent, values |-> "none"]
  /\ iniFile \in FileStates
  /\ fileAtStart = iniFile
  /\ initLog = <<>>

\* After a successful Initialize() that found a settings file of the current version.
Initialized ==
  /\ ui = Idle
  /\ wpc = "top"
  /\ m_init_result = TRUE
  /\ m_init_event = TRUE
  /\ initRet = "true"
  /\ translator = TRUE
  /\ layer = [version |-> SETTINGS_VERSION, values |-> "file"]
  /\ iniFile = SETTINGS_VERSION
  /\ fileAtStart = SETTINGS_VERSION
  /\ initLog = <<"Load", "Initialize">>

\* What initializeOnThread and the lifecycle handlers have left: the poll timer runs
\* unless a system does, and a system that exists was announced.
Hosting ==
  /\ pollTimer = ~IsRunning(sys)
  /\ announced = IsRunning(sys)
  /\ m_is_exclusive_fullscreen = FALSE

Init == Fresh /\ Unbooted /\ Initialized /\ Hosting

\* The console idle, or running a system booted earlier, windowed or fullscreen.
ConsoleInit ==
  /\ Fresh
  /\ Initialized
  /\ sys \in {"Shutdown", "Running"}
  /\ m_display = IsRunning(sys)
  /\ m_is_fullscreen \in BOOLEAN
  /\ m_display_all_frames = FALSE
  /\ m_throttler_enabled = TRUE
  /\ m_frame_step_request = FALSE
  /\ Hosting

\* The run-loop and the worker side of the queue, common to both specifications.
Loop ==
  \/ loopTop
  \/ execNextPass
  \/ execReturns
  \/ deliver
  \/ doStopThread
  \/ teardown
  \/ threadJoined
  \/ destroyQtHostInterface

\* The bridge: commands, their delivery modes and the emulation run-loop.
Next ==
  \/ bootSystem
  \/ powerOffSystem
  \/ synchronousPowerOffSystem
  \/ pauseSystem
  \/ loadState
  \/ saveState
  \/ singleStepCPU
  \/ executeOnEmulationThread
  \/ stopThread
  \/ blockingCallReturns
  \/ syncExecuteReturns
  \/ uiServesRequest
  \/ runFrame
  \/ afterFrame
  \/ bootSystemStarts
  \/ bootSystemEnds
  \/ pauseSystemBody
  \/ singleStepCPUBody
  \/ bodyAsksUI
  \/ noticeReturns
  \/ powerOffSystemBody
  \/ loadStateBody
  \/ saveStateBody
  \/ callbackCalls
  \/ executeBody
  \/ processEventsDone
  \/ Loop

Spec == Init /\ [][Next]_vars

\* The settings store: mutations on both threads, the save timer and the shutdown.
SettingsNext ==
  \/ SetBaseSettingValue
  \/ uiQueueSettingsSave
  \/ uiStartsSaveTimer
  \/ uiSaveSettings
  \/ uiReleasesSaveTimer
  \/ setDefaultSettings
  \/ SetDefaultSettings
  \/ workerQueueSettingsSave
  \/ workerStartsSaveTimer
  \/ workerSaveSettings
  \/ stopThread
  \/ Loop

SettingsSpec == Init /\ [][SettingsNext]_vars

\* The operations on the system and its display, with the run-loop that serves them.
ConsoleNext ==
  \/ bootSystem
  \/ powerOffSystem
  \/ saveState
  \/ singleStepCPU
  \/ resetSystem
  \/ changeDisc
  \/ changeDiscFromPlaylist
  \/ applySettings
  \/ toggleFullscreen
  \/ SetBaseSettingValue
  \/ uiQueueSettingsSave
  \/ uiStartsSaveTimer
  \/ blockingCallReturns
  \/ uiServesRequest
  \/ loopTop
  \/ runFrame
  \/ afterFrame
  \/ processEventsDone
  \/ execNextPass
  \/ execReturns
  \/ deliver
  \/ bodyAsksUI
  \/ noticeReturns
  \/ bootSystemStarts
  \/ bootSystemEnds
  \/ powerOffSystemBody
  \/ saveStateBody
  \/ singleStepCPUBody
  \/ resetSystemBody
  \/ changeDiscBody
  \/ changeDiscFromPlaylistBody
  \/ applySettingsBody
  \/ toggleFullscreenBody
  \/ updateDisplayState

ConsoleSpec == ConsoleInit /\ [][ConsoleNext]_vars

\* A console idle or running a system, windowed, fullscreen or in exclusive
\* fullscreen.
DisplayInit ==
  /\ Fresh
  /\ Initialized
  /\ sys \in {"Shutdown", "Running"}
  /\ m_display = IsRunning(sys)
  /\ m_is_fullscreen \in {FALSE, m_display}
  /\ m_display_all_frames = FALSE
  /\ m_throttler_enabled = TRUE
  /\ m_frame_step_request = FALSE
  /\ pollTimer = ~IsRunning(sys)
  /\ announced = IsRunning(sys)
  /\ m_is_exclusive_fullscreen \in {FALSE, m_is_fullscreen}

\* The display: the system operations that acquire, release and redraw it, the
\* fullscreen changes and the events of its window.
DisplayNext ==
  \/ bootSystem
  \/ powerOffSystem
  \/ pauseSystem
  \/ singleStepCPU
  \/ applySettings
  \/ toggleFullscreen
  \/ blockingCallReturns
  \/ uiServesRequest
  \/ loopTop
  \/ runFrame
  \/ afterFrame
  \/ processEventsDone
  \/ execNextPass
  \/ execReturns
  \/ deliver
  \/ bodyAsksUI
  \/ noticeReturns
  \/ bootSystemStarts
  \/ bootSystemEnds
  \/ powerOffSystemBody
  \/ pauseSystemBody
  \/ singleStepCPUBody
  \/ applySettingsBody
  \/ toggleFullscreenBody
  \/ updateDisplayState
  \/ onDisplayWindowResized
  \/ onDisplayWindowFocused

DisplaySpec == DisplayInit /\ [][DisplayNext]_vars

\* Resuming from the most recent save state, with the power off that ends the
\* system it starts and the run-loop that serves both.
ResumeNext ==
  \/ resumeSystemFromMostRecentState
  \/ powerOffSystem
  \/ uiServesRequest
  \/ loopTop
  \/ runFrame
  \/ afterFrame
  \/ processEventsDone
  \/ execNextPass
  \/ execReturns
  \/ deliver
  \/ bodyAsksUI
  \/ noticeReturns
  \/ loadStateBody
  \/ powerOffSystemBody

ResumeSpec == Init /\ [][ResumeNext]_vars

\* The worker in its run-loop with no system or with a running one, under every
\* setting of the loop's flags.
LoopInit ==
  /\ Fresh
  /\ Initialized
  /\ sys \in {"Shutdown", "Running"}
  /\ m_display = IsRunning(sys)
  /\ m_is_fullscreen = FALSE
  /\ m_display_all_frames \in BOOLEAN
  /\ m_throttler_enabled \in BOOLEAN
  /\ m_frame_step_request \in {FALSE, IsRunning(sys)}
  /\ Hosting

\* The run-loop and the commands that start, pause, single-step and end a system.
LoopNext ==
  \/ bootSystem
  \/ pauseSystem
  \/ powerOffSystem
  \/ singleStepCPU
  \/ blockingCallReturns
  \/ uiServesRequest
  \/ loopTop
  \/ runFrame
  \/ afterFrame
  \/ processEventsDone
  \/ execNextPass
  \/ execReturns
  \/ deliver
  \/ bodyAsksUI
  \/ noticeReturns
  \/ bootSystemStarts
  \/ bootSystemEnds
  \/ pauseSystemBody
  \/ powerOffSystemBody
  \/ singleStepCPUBody

LoopSpec == LoopInit /\ [][LoopNext]_vars

\* What the worker thread does by itself: the steps of its loop and of the bodies.
WorkerRuns ==
  \/ loopTop
  \/ runFrame
  \/ afterFrame
  \/ processEventsDone
  \/ execNextPass
  \/ execReturns
  \/ deliver
  \/ bodyAsksUI
  \/ noticeReturns
  \/ bootSystemStarts
  \/ bootSystemEnds
  \/ pauseSystemBody
  \/ powerOffSystemBody
  \/ singleStepCPUBody

\* The run-loop from a successful Initialize(), both threads scheduled fairly: the
\* worker takes its steps, the UI thread serves a request of the worker and returns
\* from a blocking call that was released; the calls of the user carry no fairness.
WakeSpec ==
  /\ Init
  /\ [][LoopNext]_vars
  /\ WF_vars(WorkerRuns)
  /\ WF_vars(uiServesRequest \/ blockingCallReturns)

\* The program from its start: initialization, then the settings store in use.
InitNext ==
  \/ initializeOnThread
  \/ setInitResult
  \/ waitForInit
  \/ SettingsNext

InitSpec == Constructed /\ [][InitNext]_vars

----------------------------------------------------------------------------
(* Properties of the bridge *)

\* C1: the body of a marshalled operation called from a non-worker thread never
\* runs on the calling thread: the call only enqueues the command, and every body
\* that runs, runs on the worker thread.
C1_BodiesRunOnWorker ==
  /\ \A i \in 1..Len(bodyLog) : bodyLog[i].thr = Worker
  /\ \A id \in 1..(nextId - 1) :
       \/ id \in QueuedIds(queue)
       \/ \E i \in 1..Len(bodyLog) : bodyLog[i].id = id

\* A command issued on the UI thread has run to completion on the worker.
C1_Witness ==
  \E i \in 1..Len(bodyLog) : bodyLog[i].thr = Worker /\ bodyLog[i].id \in finished

\* C2: a blocking call issued on the UI thread does not return to its caller
\* before the worker has finished executing the body of that call.
C2_BlockingReturnsAfterBody == returned \subseteq finished

\* C3: while the UI thread waits for a blocking call it keeps processing its
\* event queue, so a body that needs the UI thread is never left waiting for a
\* UI thread that is blocked.
C3_WaitingUIServesRequests ==
  (ui.kind \in {"bqc", "sync"} /\ uiReq = "pending") => UIProcessesEvents

\* C4: every command queued when an emulation step finishes has been executed
\* when the next emulation step begins.
C4_DrainBeforeNextStep == (wpc = "inFrame") => (snap \subseteq finished)

\* An emulation step begins after commands were queued during the step before it.
C4_Witness == wpc = "inFrame" /\ snap # {} /\ snap \subseteq finished

\* C5: commands issued from one thread are executed in the order they were
\* issued, whatever the mix of queued and blocking deliveries (ids are given in
\* the order of issue; the calls a callback makes on the worker are set apart).
C5_FifoPerThread ==
  \A i, j \in 1..Len(bodyLog) :
    (i < j /\ bodyLog[i].id \notin workerIssued /\ bodyLog[j].id \notin workerIssued)
      => bodyLog[i].id < bodyLog[j].id

\* Three bodies have run, delivered by queued and by blocking calls.
C5_Witness ==
  /\ Len(bodyLog) >= 3
  /\ semDone # {}
  /\ finished \ semDone # {}

\* C6: a power off issued after bootSystem and before that boot has completed,
\* the boot still queued or already executing, cancels it: that boot never
\* creates a running system.
C6_PowerOffCancelsBoot == doomed \cap booted = {}

\* A boot that a power off overtook has run to its end, and no system exists.
C6_Witness ==
  /\ \E id \in doomed : id \in finished
  /\ IsShutdown(sys)

\* Neither thread is inside a settings mutation or QueueSettingsSave.
SettingsQuiescent ==
  /\ ui.kind \notin {"qss", "qssCreate"}
  /\ wsub \notin {"qss", "qssCreate"}

\* C7: the settings mutations of one debounce window cause exactly one save, and
\* it writes the final content: once the timer of a window has run out, one save
\* has happened and the file holds the settings.
C7_OneSavePerWindow ==
  (SettingsQuiescent /\ nextTimer > 1 /\ \A tm \in timers : ~tm.armed)
    => (saves = 1 /\ diskVer = settingsVer)

\* C8: at most one settings-save timer exists.
C8_AtMostOneSaveTimer == Cardinality(timers) <= 1

\* C9: a settings mutation is never left unsaved with no save timer pending.
C9_MutationsArePersisted ==
  (Alive /\ SettingsQuiescent /\ ui.kind # "saveRelease" /\ settingsVer # diskVer)
    => \E tm \in timers : tm.id = s_settings_save_timer /\ tm.armed

\* C10: after stopThread the worker thread observes the shutdown flag and ends, so
\* that the join returns: it is never stopped short of the end of threadEntryPoint.
C10_StopThreadEndsWorker ==
  (ui.kind = "join" /\ m_shutdown_flag) => wpc # "crashed"

\* C11: when a settings save is pending as the run-loop exits, the teardown of
\* threadEntryPoint writes the settings to disk and completes normally: the
\* worker thread ends with the file holding the settings.
C11_TeardownFlushesSettings ==
  [][(wpc = "teardown" /\ s_settings_save_timer # 0)
       => (wpc' = "done" /\ diskVer' = settingsVer)]_vars

\* C12: emulation stepping, input polling and rendering are only ever done by
\* the worker thread.
C12_OnlyWorkerStepsPollsRenders == \A a \in activity : a.thr = Worker

\* The worker has stepped the emulation, polled the input and rendered.
C12_Witness ==
  {"RunFrame", "PollSources", "PollAndUpdate", "renderDisplay"}
    \subseteq {a.ev : a \in {b \in activity : b.thr = Worker}}

\* C13: no effect of a bridge operation on emulation state overlaps with an
\* emulation step: while the worker is inside RunFrame/RunFrames no body executes
\* and no thread changes system state, the part of power off that runs on the
\* calling thread included.
C13_NoOverlapWithStep ==
  [][(wpc = "inFrame") => (wcur = NoCmd /\ sys' = sys /\ cancelled' = cancelled)]_vars

\* C17: bootSystem on the worker emits emulationStarting before the boot is
\* attempted, and renders exactly one frame after the boot if and only if the
\* boot succeeded.
C17_BootNotifiesThenRenders ==
  (bootTrace.id # 0) =>
    /\ SubSeq(bootTrace.evs, 1, 2) = <<"emulationStarting", "BootSystem">>
    /\ (bootTrace.id \in finished) =>
         bootTrace.evs = <<"emulationStarting", "BootSystem">>
                           \o (IF bootTrace.id \in booted THEN <<"renderDisplay">> ELSE <<>>)

\* A boot has succeeded and its body has ended.
C17_Witness ==
  /\ bootTrace.id \in finished
  /\ bootTrace.id \in booted
  /\ Len(bootTrace.evs) = 3

\* C14: Initialize does not return before the worker thread has published the
\* result of initializeOnThread through setInitResult; it returns exactly that
\* result, and installs the translator only when the result is true.
C14_InitializeReturnsPublishedResult ==
  (initRet # "none") =>
    /\ m_init_event
    /\ wpc \notin {"init", "initTrue", "initFalse"}
    /\ initRet = (IF m_init_result THEN "true" ELSE "false")
    /\ translator <=> m_init_result

\* Initialize has returned false, and no translator is installed.
C14_Witness == initRet = "false" /\ ~m_init_result /\ m_init_event /\ ~translator

\* C20: when the stored settings version differs from SETTINGS_VERSION at
\* initialization, also when the file failed to load, the base layer is cleared,
\* stamped with SETTINGS_VERSION, reset to defaults and saved; after
\* initializeOnThread the stored version equals SETTINGS_VERSION.
C20_VersionMismatchResets ==
  (wpc # "init") =>
    /\ layer.version = SETTINGS_VERSION
    /\ IF fileAtStart # SETTINGS_VERSION
         THEN /\ layer.values = "defaults"
              /\ Len(initLog) >= 5
              /\ SubSeq(initLog, Len(initLog) - 4, Len(initLog)) =
                   <<"Clear", "SetIntValue", "SetDefaultSettings", "Save", "Initialize">>
         ELSE /\ layer.values = "file"
              /\ initLog = <<"Load", "Initialize">>

\* initializeOnThread has run on a settings file with an older stamp.
C20_Witness ==
  /\ wpc # "init"
  /\ fileAtStart = Older
  /\ layer = [version |-> SETTINGS_VERSION, values |-> "defaults"]

\* The steps in which a body takes effect on the system or on the loop.
BootSucceeds == wcur.op \in {"bootSystem", "loadState"} /\ ~IsValid(sys) /\ IsRunning(sys')
Unpauses == wcur.op = "pauseSystem" /\ sys = "Paused" /\ IsRunning(sys')
PowersOff == wcur.op = "powerOffSystem" /\ IsValid(sys) /\ IsShutdown(sys')
Stops == wcur.op = "doStopThread" /\ wcur' = NoCmd

\* C15: every command that must take the run-loop out of its blocking wait wakes
\* it explicitly: a successful boot or resume, unpausing, power off and the stop
\* request each call the wake primitive.
C15_CommandsWakeLoop ==
  [][(BootSucceeds \/ Unpauses \/ PowersOff \/ Stops) => exitFlag']_vars

\* C15, amended: a successful boot or resume, unpausing and the stop request each
\* call the wake primitive; power off does not, it leaves the exit flag of the
\* event loop as it found it.
C15_CommandsWakeLoopButPowerOff ==
  [][/\ (BootSucceeds \/ Unpauses \/ Stops) => exitFlag'
     /\ PowersOff => (exitFlag' = exitFlag)]_vars

\* A boot has woken the loop parked in exec(), which has yet to return.
C15_Witness == wpc = "exec" /\ exitFlag /\ IsRunning(sys) /\ booted # {}

\* A call made by a callback on the worker thread, and a call made elsewhere.
WorkerCall == wsub # "called" /\ wsub' = "called"
OtherCall == nextId' # nextId /\ ~WorkerCall

\* C16: every public operation executes its body inside the call when invoked on
\* the worker thread, and is redirected through the queue when invoked on another
\* thread; none enqueues when already on the worker thread.
C16_DirectOnWorkerQueuedElsewhere ==
  [][/\ WorkerCall => /\ queue' = queue
                      /\ bodyLog' = Append(bodyLog, [id |-> nextId, thr |-> Worker])
     /\ OtherCall => /\ Len(queue') = Len(queue) + 1
                     /\ bodyLog' = bodyLog]_vars

\* C16, amended: an operation with the isOnWorkerThread() guard executes its body
\* inside the call on the worker thread and is posted from another thread;
\* RunLater has no guard and posts its callback on every thread, the worker included.
C16_DirectOnWorkerButRunLater ==
  [][/\ WorkerCall =>
          \/ /\ queue' = queue
             /\ bodyLog' = Append(bodyLog, [id |-> nextId, thr |-> Worker])
          \/ /\ queue' = Append(queue, [id |-> nextId, op |-> "executeOnEmulationThread",
                                        p |-> FALSE, conn |-> Queued])
             /\ bodyLog' = bodyLog
     /\ OtherCall => /\ Len(queue') = Len(queue) + 1
                     /\ bodyLog' = bodyLog]_vars

\* A callback on the worker has called pauseSystem, whose body ran inside the call.
C16_Witness ==
  /\ wsub = "called"
  /\ Len(bodyLog) >= 2
  /\ bodyLog[Len(bodyLog)].id \in workerIssued \cap finished
  /\ bodyLog[Len(bodyLog)].thr = Worker

\* The body of a disc change, a state save, a reset or a single step ends.
SystemOpEnds ==
  /\ wcur.op \in {"changeDisc", "changeDiscFromPlaylist", "saveState", "resetSystem",
                  "singleStepCPU"}
  /\ wcur' = NoCmd

\* C18: with no system, changeDisc and changeDiscFromPlaylist change nothing and
\* report nothing, and saveState, resetSystem and singleStepCPU leave the system
\* state as it was.
C18_NoSystemNoEffect ==
  [][(SystemOpEnds /\ sys = "Shutdown") =>
       /\ UNCHANGED <<sys, media, m_display>>
       /\ did' = did \cup {[id |-> wcur.id, op |-> wcur.op, ev |-> "nothing"]}
       /\ uiReq' # "pending"]_vars

\* With no system, a disc change, a disc switch, a reset, a save and a step have ended.
C18_Witness ==
  /\ sys = "Shutdown"
  /\ media = "none"
  /\ \E d \in did : d.ev = "nothing" /\ d.op \in {"changeDisc", "changeDiscFromPlaylist"}
  /\ \E d \in did : d.ev = "nothing" /\ d.op \in {"saveState", "resetSystem", "singleStepCPU"}

\* C19: after applySettings on a system with a display, the render mode equals the
\* RenderToMainWindow setting it read whenever the display is not fullscreen.
C19_RenderModeFollowsSetting ==
  (IsValid(sys) /\ m_display /\ applied.done /\ ~m_is_fullscreen /\ wcur = NoCmd)
    => m_is_rendering_to_main = applied.value

\* A thread is between two of its accesses to s_settings_save_timer.
UIAtSaveTimer == ui.kind \in {"qssCreate", "saveRelease"}
WorkerAtSaveTimer == wcur.op = "setDefaultSettings" /\ wsub = "qssCreate"

\* C21: the settings store is accessed under the shared settings lock only; the
\* save-timer handle is never accessed by the two threads at once, which both
\* holding the lock would exclude.
C21_SaveTimerUnderLock ==
  (UIAtSaveTimer /\ WorkerAtSaveTimer) => (lock = UI /\ lock = Worker)

\* The current iteration of the run-loop is an Active one, past its emulation step.
ActiveIteration == Len(iteration) > 0 /\ iteration[1] \in {"RunFrame", "RunFrames"}

\* C22: an Active iteration advances emulation (one frame when display_all_frames
\* is set, otherwise a batch), polls the input sources, pauses the system if a
\* frame step was requested, renders, updates the performance counters, throttles
\* only if throttling is enabled, and only then drains the queued commands.
C22_ActiveIterationOrder ==
  /\ (wpc = "pe" /\ ActiveIteration) =>
       iteration =
         <<IF m_display_all_frames THEN "RunFrame" ELSE "RunFrames", "PollSources">>
           \o (IF steppedAt # 0 THEN <<"PauseSystem">> ELSE <<>>)
           \o <<"renderDisplay", "UpdatePerformanceCounters">>
           \o (IF m_throttler_enabled THEN <<"Throttle">> ELSE <<>>)
           \o <<"processEvents">>
  /\ wpc \in {"inFrame", "postFrame"} => wcur = NoCmd

\* An Active iteration that paused for a frame step and throttled is draining a command.
C22_Witness ==
  /\ wpc = "pe"
  /\ ActiveIteration
  /\ "PauseSystem" \in Range(iteration)
  /\ "Throttle" \in Range(iteration)
  /\ wcur # NoCmd

\* A frame step has paused the system and no command body has started since.
SteppedAndUntouched == steppedAt # 0 /\ Len(bodyLog) < steppedAt

BlockedIterationStarts ==
  wpc = "top" /\ wpc' # "top" /\ ~m_shutdown_flag /\ ~IsRunning(sys)

\* C24: with the system not running, an iteration renders one frame without
\* stepping and then drains the commands when the fullscreen UI is initialized and
\* a system exists; otherwise the loop parks in the blocking wait, where it neither
\* renders nor steps, and leaves the wait only when woken.
C24_BlockedIteration ==
  [][/\ BlockedIterationStarts =>
          IF fullscreenUI /\ IsValid(sys)
            THEN /\ wpc' = "pe"
                 /\ iteration' = <<"renderDisplay", "processEvents">>
                 /\ drainLeft' = Len(queue)
            ELSE /\ wpc' = "exec"
                 /\ iteration' = <<"exec">>
     /\ wpc = "exec" => iteration' = <<"exec">>
     /\ (wpc = "exec" /\ wpc' # "exec") => exitFlag]_vars

\* A paused system under the fullscreen UI: the iteration has rendered and drains a command.
C24_Witness ==
  /\ sys = "Paused"
  /\ fullscreenUI
  /\ wpc = "pe"
  /\ iteration = <<"renderDisplay", "processEvents">>
  /\ wcur # NoCmd

\* The body of a boot command ends without a running system.
BootFails == wcur.op = "bootSystem" /\ wcur' = NoCmd /\ ~IsRunning(sys')

\* C25: the loop becomes Active only after a boot, resume or unpause command has
\* executed successfully; a boot that fails leaves the system not running, does not
\* wake the loop and is followed by no emulation step, although emulationStarting
\* was emitted.
C25_OnlySuccessMakesActive ==
  [][/\ BootFails =>
          /\ exitFlag' = exitFlag
          /\ bootTrace'.id = wcur.id
          /\ bootTrace'.evs[1] = "emulationStarting"
     /\ (~IsRunning(sys) /\ IsRunning(sys')) =>
          /\ wcur.op \in {"bootSystem", "loadState", "pauseSystem",
                          "executeOnEmulationThread"}
          /\ exitFlag'
     /\ wpc' = "inFrame" => IsRunning(sys')]_vars

\* A boot has failed: the loop is parked, not woken, and no system exists.
C25_Witness ==
  /\ wpc = "exec"
  /\ ~exitFlag
  /\ sys = "Shutdown"
  /\ bootTrace.id \in finished \ booted
  /\ bootTrace.evs = <<"emulationStarting", "BootSystem">>
  /\ "RunFrame" \notin {a.ev : a \in activity}

\* An iteration of the run-loop ends: control returns to the top of the loop.
IterationEnds == wpc \in {"pe", "exec"} /\ wpc' = "top"

\* No command that was queued when an emulation step finished is still queued when
\* the next step starts.
WaitsOneStepAtMost == wpc' = "inFrame" => snap' \cap QueuedIds(queue') = {}

\* C26: in both loop states every iteration drains the queued commands and runs the
\* poll/update step, so a command queued while emulation runs is executed after at
\* most one emulation step.
C26_EveryIterationDrainsAndPolls ==
  [][/\ IterationEnds =>
          /\ drainLeft = 0
          /\ iteration'[Len(iteration')] = "PollAndUpdate"
     /\ WaitsOneStepAtMost]_vars

\* C26, amended: an iteration that steps or renders drains the queued commands and
\* then runs the poll/update step; an iteration parked in the blocking wait drains
\* them inside the wait and ends without the poll/update step. A command queued
\* while emulation runs is executed after at most one emulation step.
C26_DrainsAlwaysPollsUnlessParked ==
  [][/\ IterationEnds =>
          /\ drainLeft = 0
          /\ IF wpc = "pe"
               THEN iteration'[Len(iteration')] = "PollAndUpdate"
               ELSE iteration' = <<"exec">> /\ exitFlag
     /\ WaitsOneStepAtMost]_vars

\* An Active iteration has ended with the poll/update step, the commands that were
\* queued during its emulation step executed.
C26_Witness ==
  /\ wpc = "top"
  /\ ActiveIteration
  /\ iteration[Len(iteration)] = "PollAndUpdate"
  /\ snap # {}
  /\ snap \subseteq finished

\* C27: the loop exits only on observing the shutdown flag at the top of an
\* iteration; only doStopThread sets the flag and nothing clears it; past the exit
\* no emulation step, input poll or command body runs (the system is only released
\* by the teardown, never stepped); the bridge object moves back to its original
\* thread only as the last step of the teardown.
C27_ExitOnlyOnShutdownFlag ==
  [][/\ (wpc # "teardown" /\ wpc' = "teardown") => (wpc = "top" /\ m_shutdown_flag)
     /\ m_shutdown_flag' # m_shutdown_flag => (wcur.op = "doStopThread" /\ m_shutdown_flag')
     /\ wpc \in {"teardown", "done"} =>
          /\ wcur = NoCmd
          /\ UNCHANGED <<activity, bodyLog, finished, iteration>>
          /\ sys' # sys => (wpc = "teardown" /\ IsShutdown(sys'))
     /\ objectThread' # objectThread =>
          (wpc = "teardown" /\ wpc' = "done" /\ objectThread' = UI)]_vars

\* The worker has left the loop after executing a command and the stop request, and
\* the bridge object is back on the UI thread.
C27_Witness ==
  /\ wpc = "done"
  /\ m_shutdown_flag
  /\ objectThread = UI
  /\ Cardinality(finished) >= 2

\* C28: every command enqueued for the worker thread is executed exactly once: no
\* body starts twice, and none is left in the queue when the worker leaves its loop.
C28_ExecutedExactlyOnce ==
  /\ \A i, j \in 1..Len(bodyLog) : i # j => bodyLog[i].id # bodyLog[j].id
  /\ wpc \in {"teardown", "done"} => queue = <<>>

\* C29: QtHost::SaveSettings is never executed on the worker thread: the worker is
\* never stopped by the assertion "Saving should happen on the UI thread".
C29_SaveSettingsOffWorker == wpc # "crashed"

\* C30: m_worker_thread_sync_execute_done is unsignalled whenever no blocking
\* executeOnEmulationThread call from the UI thread is outstanding.
C30_SyncEventOnlyWhileWaited == syncEvent => ui.kind = "sync"

\* C31: no wake-up is lost: a loop that is in the blocking wait while the system is
\* Running eventually performs an emulation step, unless the system stops running
\* or the shutdown is requested first.
C31_NoLostWakeup ==
  (wpc = "exec" /\ IsRunning(sys)) ~> (wpc = "inFrame" \/ ~IsRunning(sys) \/ m_shutdown_flag)
C31_Witness == wpc = "exec" /\ IsRunning(sys) /\ exitFlag /\ booted # {}

\* C32: from a successful initialization to shutdownOnThread the background
\* controller poll timer is active exactly when no system is Running.
C32_PollTimerIffNotRunning ==
  (m_init_result /\ wpc \in {"top", "inFrame", "postFrame", "pe", "exec"})
    => (pollTimer <=> ~IsRunning(sys))

C32_Witness ==
  /\ pollTimer
  /\ sys = "Paused"
  /\ booted # {}
  /\ wpc = "exec"

C34_NoticeKeepsFullscreen ==
  [][/\ (~asking /\ asking') =>
          /\ was_fullscreen' = m_is_fullscreen
          /\ ~m_is_fullscreen'
     /\ (asking /\ asking') => (~m_is_fullscreen /\ ~m_is_fullscreen')
     /\ (asking /\ ~asking') => m_is_fullscreen' = was_fullscreen
     /\ TRUE \notin noticeLog']_vars

C34_Witness ==
  /\ ~asking
  /\ was_fullscreen
  /\ m_is_fullscreen
  /\ noticeLog = {FALSE}
  /\ wsub = "waitUI"

C37_FocusRestoresSameDisplay ==
  [][(m_lost_exclusive_fullscreen /\ ~m_lost_exclusive_fullscreen')
       => lostOn = displayNo + 1]_vars

\* C38: resumeSystemFromMostRecentState with no resume save state emits an error
\* notification, enqueues no command and leaves the system state unchanged; with
\* one it enqueues exactly one load-state command for that path.
C38_ResumeLoadsOrReports ==
  [][(resumeLog' # resumeLog) =>
       IF resumeLog'.path = ""
         THEN /\ resumeLog'.did = "errorReported"
              /\ queue' = queue
              /\ nextId' = nextId
              /\ sys' = sys
         ELSE /\ resumeLog'.did = "loadState"
              /\ queue' = Append(queue, [id |-> nextId, op |-> "loadState",
                                         p |-> resumeLog'.path, conn |-> Queued])
              /\ sys' = sys]_vars

C38_Witness ==
  /\ resumeLog # <<>>
  /\ resumeLog.did = "errorReported"
  /\ queue # <<>>
  /\ IsRunning(sys)

====
